---- MODULE Spec2Model ----
(***************************************************************************)
(* Snap Hero annotation editor: the scene state, the pointer handlers of   *)
(* the tool manager, the text tool, the toolbar, the undo/redo history,    *)
(* the full redraw and the draft kept in chrome.storage.local.             *)
(*                                                                         *)
(* Numbers.  All coordinates are integers in tenths of a pixel (Unit), so  *)
(* that the halves of Ellipse.setEnd and the baseline offset               *)
(* fontSize * 0.8 of showTextInput are exact.  Pointer coordinates are     *)
(* whole pixels (display scale 1).                                         *)
(*                                                                         *)
(* Objects.  A JavaScript object that is shared is modelled by its         *)
(* identity: the points of a stroke live in `heap` and a stroke holds the  *)
(* sequence of their addresses; the annotation objects of the live lists   *)
(* have the identities of `identity`, and state.selectedAnnotation holds   *)
(* one of them.                                                            *)
(***************************************************************************)
EXTENDS Integers, Sequences, FiniteSets, TLC

VARIABLES
    state,          \* the state object of state.js
    identity,       \* object identities of the annotations in the live lists
    heap,           \* the {x, y} point objects of the strokes, by address
    rafId,          \* tool-manager.js: the pending frame callback (or null)
    pendingCoords,  \* tool-manager.js: the coordinates buffered for it
    frames,         \* the frame callbacks the browser holds for the next frame
    textInput,      \* the #textInput element: its value and focus
    timers,         \* pending setTimeout callbacks of the text tool
    callLog,        \* history of the saveToHistory() calls (ghost)
    draft,          \* draft.js: its module variables, the stored draft, the modals
    capture         \* the popup: the running call of captureWithRetry()

vars == <<state, identity, heap, rafId, pendingCoords, frames, textInput, timers,
         callLog, draft, capture>>

-----------------------------------------------------------------------------
(* Bounds of the model *)

MaxAnnotations == 1     \* annotations committed by the drawing specification
MaxPoints == 2          \* points of one stroke
MaxHistory == 4         \* history depth explored by the editing specifications
MaxSaves == 22          \* saveToHistory() calls explored by the history specification
MaxCoord == 500         \* pixels: dragged annotations stay within [0, MaxCoord]
MaxTimers == 2          \* pending blur timers
MaxScene == 2           \* annotations of a scene of the hit-testing specification
MaxRetries == 2         \* the maxRetries a capture is started with

-----------------------------------------------------------------------------
(* Program constants (constants.js) *)

Unit == 10                  \* tenths of a pixel per pixel
handleSize == 8
hitTolerance == 10
maxEntries == 20
minShapeSize == 10
minArrowLength == 5
minResizeSize == 10
defaultLineWidth == 4
defaultFontSize == 24
textPadding == 4
defaultColor == "#ef4444"
defaultFilled == FALSE
MAX_STORAGE_SIZE == 5 * 1024 * 1024

\* CANVAS.textBaselineRatio = 0.8, applied to a length in tenths of a pixel
textBaseline(len) == (len * 8) \div 10

TOOLS == {"select", "pen", "text", "rectangle", "circle", "arrow", "blur"}
TYPES == {"stroke", "arrow", "rectangle", "ellipse", "blur", "text"}
LISTS == {"strokes", "arrows", "rectangles", "ellipses", "blurs", "texts"}

ListOf(type) ==
    CASE type = "stroke" -> "strokes"
      [] type = "arrow" -> "arrows"
      [] type = "rectangle" -> "rectangles"
      [] type = "ellipse" -> "ellipses"
      [] type = "blur" -> "blurs"
      [] type = "text" -> "texts"

-----------------------------------------------------------------------------
(* null and references *)

Null == <<>>
Some(x) == <<x>>
Val(o) == o[1]

Abs(n) == IF n < 0 THEN -n ELSE n
Min(a, b) == IF a <= b THEN a ELSE b
Max(a, b) == IF a >= b THEN a ELSE b

RECURSIVE MinOf(_)
MinOf(seq) == IF Len(seq) = 1 THEN seq[1] ELSE Min(seq[1], MinOf(Tail(seq)))

RECURSIVE MaxOf(_)
MaxOf(seq) == IF Len(seq) = 1 THEN seq[1] ELSE Max(seq[1], MaxOf(Tail(seq)))

\* a/b < c/d for a, c >= 0 and b, d > 0, without forming the products
RECURSIVE FracLess(_, _, _, _)
FracLess(a, b, c, d) ==
    LET qa == a \div b
        qc == c \div d
        ra == a % b
        rc == c % d
    IN  IF qa # qc THEN qa < qc
        ELSE IF rc = 0 THEN FALSE
        ELSE IF ra = 0 THEN TRUE
        ELSE FracLess(d, rc, b, ra)

-----------------------------------------------------------------------------
(* annotations.js *)

Stroke(color, lineWidth) ==
    [type |-> "stroke", points |-> <<>>, color |-> color, lineWidth |-> lineWidth]

Arrow(startX, startY, color, lineWidth) ==
    [type |-> "arrow", startX |-> startX, startY |-> startY,
     endX |-> startX, endY |-> startY, color |-> color, lineWidth |-> lineWidth]

TextAnnotation(x, y, text, fontSize, color) ==
    [type |-> "text", x |-> x, y |-> y, text |-> text,
     fontSize |-> fontSize, color |-> color]

Rectangle(x, y, color, lineWidth, filled) ==
    [type |-> "rectangle", x |-> x, y |-> y, width |-> 0, height |-> 0,
     color |-> color, lineWidth |-> lineWidth, filled |-> filled]

Ellipse(x, y, color, lineWidth, filled) ==
    [type |-> "ellipse", startX |-> x, startY |-> y, centerX |-> x, centerY |-> y,
     radiusX |-> 0, radiusY |-> 0,
     color |-> color, lineWidth |-> lineWidth, filled |-> filled]

BlurRegion(x, y) ==
    [type |-> "blur", x |-> x, y |-> y, width |-> 0, height |-> 0]

\* the smallest address that is not in use
NewAddress(h) ==
    CHOOSE i \in 1..(Cardinality(DOMAIN h) + 1) :
        /\ i \notin DOMAIN h
        /\ \A j \in 1..(i - 1) : j \in DOMAIN h

\* Stroke.addPoint: a new {x, y} object, appended to stroke.points
addPointHeap(h, x, y) == (NewAddress(h) :> [x |-> x, y |-> y]) @@ h
addPoint(stroke, h) == [stroke EXCEPT !.points = Append(@, NewAddress(h))]

ArrowSetEnd(a, x, y) == [a EXCEPT !.endX = x, !.endY = y]

RectSetEnd(r, endX, endY) == [r EXCEPT !.width = endX - r.x, !.height = endY - r.y]

EllipseSetEnd(e, endX, endY) ==
    [e EXCEPT !.centerX = (e.startX + endX) \div 2,
              !.centerY = (e.startY + endY) \div 2,
              !.radiusX = Abs(endX - e.startX) \div 2,
              !.radiusY = Abs(endY - e.startY) \div 2]

BlurSetEnd(b, endX, endY) == RectSetEnd(b, endX, endY)

\* ctx.measureText(text).width for the bold Arial font of the given size:
\* half the font size per character
measureText(text, fontSize) == Len(text) * ((fontSize * Unit) \div 2)

Bounds(x, y, width, height) == [x |-> x, y |-> y, width |-> width, height |-> height]

StrokeXs(stroke, h) == [i \in 1..Len(stroke.points) |-> h[stroke.points[i]].x]
StrokeYs(stroke, h) == [i \in 1..Len(stroke.points) |-> h[stroke.points[i]].y]

\* getBounds() of every annotation class: Some(bounds), or Null for a stroke
\* without points
getBounds(a, h) ==
    CASE a.type = "stroke" ->
            IF Len(a.points) = 0 THEN Null
            ELSE LET xs == StrokeXs(a, h)
                     ys == StrokeYs(a, h)
                 IN  Some(Bounds(MinOf(xs), MinOf(ys),
                                 MaxOf(xs) - MinOf(xs), MaxOf(ys) - MinOf(ys)))
      [] a.type = "arrow" ->
            Some(Bounds(Min(a.startX, a.endX), Min(a.startY, a.endY),
                        Abs(a.endX - a.startX), Abs(a.endY - a.startY)))
      [] a.type = "text" ->
            Some(Bounds(a.x - textPadding * Unit, a.y - a.fontSize * Unit,
                        measureText(a.text, a.fontSize) + 8 * Unit,
                        a.fontSize * Unit + 8 * Unit))
      [] a.type \in {"rectangle", "blur"} ->
            Some(Bounds(IF a.width >= 0 THEN a.x ELSE a.x + a.width,
                        IF a.height >= 0 THEN a.y ELSE a.y + a.height,
                        Abs(a.width), Abs(a.height)))
      [] a.type = "ellipse" ->
            Some(Bounds(a.centerX - a.radiusX, a.centerY - a.radiusY,
                        a.radiusX * 2, a.radiusY * 2))

-----------------------------------------------------------------------------
(* The world a handler runs in: every variable of the module, as one record, *)
(* so that handlers compose as functions from world to world.                *)

World ==
    [state |-> state, identity |-> identity, heap |-> heap, rafId |-> rafId,
     pendingCoords |-> pendingCoords, frames |-> frames, textInput |-> textInput,
     timers |-> timers,
     callLog |-> callLog, draft |-> draft, capture |-> capture]

\* the addresses of the points a list of strokes refers to
PointsOf(strokes) == UNION {{strokes[i].points[j] : j \in 1..Len(strokes[i].points)} :
                            i \in 1..Len(strokes)}

EntryPoints(entry) == PointsOf(entry.strokes)

Referenced(s) ==
    PointsOf(s.strokes)
    \cup (IF s.currentStroke = Null THEN {} ELSE PointsOf(<<Val(s.currentStroke)>>))
    \cup UNION {EntryPoints(s.history[i]) : i \in 1..Len(s.history)}

\* the smallest object identity not in use by a live annotation or the selection
UsedIds(w) ==
    {w.state.selectedAnnotation} \cup
    UNION {{w.identity[l][i] : i \in 1..Len(w.identity[l])} : l \in LISTS}

NewId(w) == CHOOSE i \in 1..(Cardinality(UsedIds(w)) + 1) :
                /\ i \notin UsedIds(w)
                /\ \A j \in 1..(i - 1) : j \in UsedIds(w)

\* the index (from 1) of the object in the live list of its type, 0 if it is
\* not in the list
Locate(w, type, id) ==
    LET ids == w.identity[ListOf(type)]
        at == {i \in 1..Len(ids) : ids[i] = id}
    IN  IF at = {} THEN 0 ELSE CHOOSE i \in at : TRUE

\* list.push(annotation): the object enters the live list
Push(w, list, annotation) ==
    [w EXCEPT !.state[list] = Append(@, annotation),
              !.identity[list] = Append(@, NewId(w))]

NumAnnotations(s) ==
    Len(s.strokes) + Len(s.arrows) + Len(s.rectangles) + Len(s.ellipses)
    + Len(s.blurs) + Len(s.texts)

-----------------------------------------------------------------------------
(* tool-manager.js: hit detection *)

pointInBounds(x, y, bounds) ==
    /\ x >= bounds.x /\ x <= bounds.x + bounds.width
    /\ y >= bounds.y /\ y <= bounds.y + bounds.height

\* distanceToLine(px, py, x1, y1, x2, y2) < tolerance, on the squares:
\* with t clamped to [0, 1] the nearest point is an end point or the foot of
\* the perpendicular, whose squared distance is A*A + B*B - dot*dot/lenSq
distanceToLineLess(px, py, x1, y1, x2, y2, tolerance) ==
    LET A == px - x1
        B == py - y1
        C == x2 - x1
        D == y2 - y1
        dot == A * C + B * D
        lenSq == C * C + D * D
        tolSq == tolerance * tolerance
        L == A * A + B * B - tolSq
    IN  IF lenSq = 0 \/ dot <= 0 THEN L < 0
        ELSE IF dot >= lenSq THEN (px - x2) * (px - x2) + (py - y2) * (py - y2) < tolSq
        ELSE IF L <= 0 THEN TRUE
        ELSE FracLess(L, dot, dot, lenSq)

Hit(type, index, w) ==
    Some([type |-> type, index |-> index,
          annotation |-> w.identity[ListOf(type)][index]])

\* the highest index of a set of matching indices, 0 if there is none
Last(hits) == IF hits = {} THEN 0 ELSE CHOOSE i \in hits : \A j \in hits : j <= i

InBoundsOf(a, h, x, y) == pointInBounds(x, y, Val(getBounds(a, h)))


NearArrow_half(a, x, y) ==
    distanceToLineLess(x, y, a.startX, a.startY, a.endX, a.endY, (hitTolerance \div 2) * Unit)

NearArrow(a, x, y) ==
    distanceToLineLess(x, y, a.startX, a.startY, a.endX, a.endY, hitTolerance * Unit)

NearStroke(stroke, h, x, y) ==
    \E j \in 2..Len(stroke.points) :
        LET p1 == h[stroke.points[j - 1]]
            p2 == h[stroke.points[j]]
        IN  distanceToLineLess(x, y, p1.x, p1.y, p2.x, p2.y, hitTolerance * Unit)


findAnnotationAtPoint_lowestFirst(w, x, y) ==
    LET s == w.state
        h == w.heap
        First(hits) == IF hits = {} THEN 0 ELSE CHOOSE i \in hits : \A j \in hits : i <= j
        text == First({i \in 1..Len(s.texts) : InBoundsOf(s.texts[i], h, x, y)})
        ellipse == First({i \in 1..Len(s.ellipses) : InBoundsOf(s.ellipses[i], h, x, y)})
        rectangle == First({i \in 1..Len(s.rectangles) :
                             InBoundsOf(s.rectangles[i], h, x, y)})
        arrow == First({i \in 1..Len(s.arrows) : NearArrow(s.arrows[i], x, y)})
        stroke == First({i \in 1..Len(s.strokes) : NearStroke(s.strokes[i], h, x, y)})
        blur == First({i \in 1..Len(s.blurs) : InBoundsOf(s.blurs[i], h, x, y)})
    IN  IF text # 0 THEN Hit("text", text, w)
        ELSE IF ellipse # 0 THEN Hit("ellipse", ellipse, w)
        ELSE IF rectangle # 0 THEN Hit("rectangle", rectangle, w)
        ELSE IF arrow # 0 THEN Hit("arrow", arrow, w)
        ELSE IF stroke # 0 THEN Hit("stroke", stroke, w)
        ELSE IF blur # 0 THEN Hit("blur", blur, w)
        ELSE Null

findAnnotationAtPoint(w, x, y) ==
    LET s == w.state
        h == w.heap
        text == Last({i \in 1..Len(s.texts) : InBoundsOf(s.texts[i], h, x, y)})
        ellipse == Last({i \in 1..Len(s.ellipses) : InBoundsOf(s.ellipses[i], h, x, y)})
        rectangle == Last({i \in 1..Len(s.rectangles) :
                            InBoundsOf(s.rectangles[i], h, x, y)})
        arrow == Last({i \in 1..Len(s.arrows) : NearArrow(s.arrows[i], x, y)})
        stroke == Last({i \in 1..Len(s.strokes) : NearStroke(s.strokes[i], h, x, y)})
        blur == Last({i \in 1..Len(s.blurs) : InBoundsOf(s.blurs[i], h, x, y)})
    IN  IF text # 0 THEN Hit("text", text, w)
        ELSE IF ellipse # 0 THEN Hit("ellipse", ellipse, w)
        ELSE IF rectangle # 0 THEN Hit("rectangle", rectangle, w)
        ELSE IF arrow # 0 THEN Hit("arrow", arrow, w)
        ELSE IF stroke # 0 THEN Hit("stroke", stroke, w)
        ELSE IF blur # 0 THEN Hit("blur", blur, w)
        ELSE Null

OnHandle(x, y, px, py) ==
    Abs(x - px) <= handleSize * Unit /\ Abs(y - py) <= handleSize * Unit

\* the first of the four corner handles, in the order nw, ne, sw, se, the point
\* is on; "null" if it is on none
getHandleAtPoint(x, y, bounds) ==
    IF OnHandle(x, y, bounds.x, bounds.y) THEN "resize-nw"
    ELSE IF OnHandle(x, y, bounds.x + bounds.width, bounds.y) THEN "resize-ne"
    ELSE IF OnHandle(x, y, bounds.x, bounds.y + bounds.height) THEN "resize-sw"
    ELSE IF OnHandle(x, y, bounds.x + bounds.width, bounds.y + bounds.height)
         THEN "resize-se"
    ELSE "null"

-----------------------------------------------------------------------------
(* tool-manager.js: move and resize *)

\* the annotation object with the given identity
Object(w, type, id) == w.state[ListOf(type)][Locate(w, type, id)]

ObjectBounds(w, type, id) ==
    IF Locate(w, type, id) = 0 THEN Null ELSE getBounds(Object(w, type, id), w.heap)


moveAnnotation_clamped(w, id, type, dx, dy) ==
    LET i == Locate(w, type, id)
    IN  IF i = 0 THEN w
        ELSE CASE type = "stroke" ->
                    LET pts == PointsOf(<<w.state.strokes[i]>>)
                    IN  [w EXCEPT !.heap = [a \in DOMAIN @ |->
                            IF a \in pts THEN [x |-> Max(0, @[a].x + dx), y |-> Max(0, @[a].y + dy)]
                            ELSE @[a]]]
               [] type = "arrow" ->
                    [w EXCEPT !.state.arrows[i] =
                        [@ EXCEPT !.startX = Max(0, @ + dx), !.startY = Max(0, @ + dy),
                                  !.endX = Max(0, @ + dx), !.endY = Max(0, @ + dy)]]
               [] type \in {"rectangle", "blur"} ->
                    [w EXCEPT !.state[ListOf(type)][i] =
                        [@ EXCEPT !.x = Max(0, @ + dx), !.y = Max(0, @ + dy)]]
               [] type = "ellipse" ->
                    [w EXCEPT !.state.ellipses[i] =
                        [@ EXCEPT !.centerX = Max(0, @ + dx), !.centerY = Max(0, @ + dy),
                                  !.startX = Max(0, @ + dx), !.startY = Max(0, @ + dy)]]
               [] type = "text" ->
                    [w EXCEPT !.state.texts[i] =
                        [@ EXCEPT !.x = Max(0, @ + dx), !.y = Max(0, @ + dy)]]
               [] OTHER -> w

moveAnnotation(w, id, type, dx, dy) ==
    LET i == Locate(w, type, id)
    IN  IF i = 0 THEN w
        ELSE CASE type = "stroke" ->
                    LET pts == PointsOf(<<w.state.strokes[i]>>)
                    IN  [w EXCEPT !.heap = [a \in DOMAIN @ |->
                            IF a \in pts THEN [x |-> @[a].x + dx, y |-> @[a].y + dy]
                            ELSE @[a]]]
               [] type = "arrow" ->
                    [w EXCEPT !.state.arrows[i] =
                        [@ EXCEPT !.startX = @ + dx, !.startY = @ + dy,
                                  !.endX = @ + dx, !.endY = @ + dy]]
               [] type \in {"rectangle", "blur"} ->
                    [w EXCEPT !.state[ListOf(type)][i] =
                        [@ EXCEPT !.x = @ + dx, !.y = @ + dy]]
               [] type = "ellipse" ->
                    [w EXCEPT !.state.ellipses[i] =
                        [@ EXCEPT !.centerX = @ + dx, !.centerY = @ + dy,
                                  !.startX = @ + dx, !.startY = @ + dy]]
               [] type = "text" ->
                    [w EXCEPT !.state.texts[i] = [@ EXCEPT !.x = @ + dx, !.y = @ + dy]]
               [] OTHER -> w

\* the characters of the drag mode names, for mode.includes(c)
ModeChars(mode) ==
    CASE mode = "resize-nw" -> {"r", "e", "s", "i", "z", "-", "n", "w"}
      [] mode = "resize-ne" -> {"r", "e", "s", "i", "z", "-", "n"}
      [] mode = "resize-sw" -> {"r", "e", "s", "i", "z", "-", "w"}
      [] mode = "resize-se" -> {"r", "e", "s", "i", "z", "-"}
      [] mode = "move" -> {"m", "o", "v", "e"}
      [] OTHER -> {}

includes(mode, c) == c \in ModeChars(mode)

\* the new bounds resizeAnnotation computes from the original bounds
resizeBounds(mode, dx, dy, original) ==
    LET b1 == IF includes(mode, "w")
              THEN [original EXCEPT !.x = @ + dx, !.width = @ - dx] ELSE original
        b2 == IF includes(mode, "e") THEN [b1 EXCEPT !.width = @ + dx] ELSE b1
        b3 == IF includes(mode, "n")
              THEN [b2 EXCEPT !.y = @ + dy, !.height = @ - dy] ELSE b2
        b4 == IF includes(mode, "s") THEN [b3 EXCEPT !.height = @ + dy] ELSE b3
        b5 == IF b4.width < minResizeSize * Unit
              THEN [b4 EXCEPT !.width = minResizeSize * Unit] ELSE b4
    IN  IF b5.height < minResizeSize * Unit
        THEN [b5 EXCEPT !.height = minResizeSize * Unit] ELSE b5

\* original.width || 1: one pixel where the original extent is 0
OrOne(extent) == IF extent = 0 THEN Unit ELSE extent

\* newOrigin + (v - origin) * (newExtent / (extent || 1))
scaleCoord(v, origin, extent, newOrigin, newExtent) ==
    newOrigin + ((v - origin) * newExtent) \div OrOne(extent)

\* the quotient above is exact (no rounding of the scaled coordinate)
scaleExact(v, origin, extent, newExtent) ==
    ((v - origin) * newExtent) % OrOne(extent) = 0


applyBoundsToAnnotation_recentres(w, id, type, newBounds, original) ==
    LET i == Locate(w, type, id)
        sx(v) == scaleCoord(v, original.x, original.width, newBounds.x, newBounds.width)
        sy(v) == scaleCoord(v, original.y, original.height, newBounds.y, newBounds.height)
    IN  IF i = 0 THEN w
        ELSE CASE type \in {"rectangle", "blur"} ->
                    [w EXCEPT !.state[ListOf(type)][i] =
                        [@ EXCEPT !.x = newBounds.x, !.y = newBounds.y,
                                  !.width = newBounds.width, !.height = newBounds.height]]
               [] type = "ellipse" ->
                    [w EXCEPT !.state.ellipses[i] =
                        [@ EXCEPT !.centerX = newBounds.x,
                                  !.centerY = newBounds.y,
                                  !.radiusX = newBounds.width \div 2,
                                  !.radiusY = newBounds.height \div 2,
                                  !.startX = newBounds.x,
                                  !.startY = newBounds.y]]
               [] type = "arrow" ->
                    [w EXCEPT !.state.arrows[i] =
                        [@ EXCEPT !.startX = sx(@), !.startY = sy(@),
                                  !.endX = sx(@), !.endY = sy(@)]]
               [] type = "stroke" ->
                    LET pts == PointsOf(<<w.state.strokes[i]>>)
                    IN  [w EXCEPT !.heap = [a \in DOMAIN @ |->
                            IF a \in pts THEN [x |-> sx(@[a].x), y |-> sy(@[a].y)]
                            ELSE @[a]]]
               [] type = "text" ->
                    [w EXCEPT !.state.texts[i] =
                        [@ EXCEPT !.x = newBounds.x + textPadding * Unit,
                                  !.y = newBounds.y + w.state.texts[i].fontSize * Unit]]
               [] OTHER -> w

applyBoundsToAnnotation(w, id, type, newBounds, original) ==
    LET i == Locate(w, type, id)
        sx(v) == scaleCoord(v, original.x, original.width, newBounds.x, newBounds.width)
        sy(v) == scaleCoord(v, original.y, original.height, newBounds.y, newBounds.height)
    IN  IF i = 0 THEN w
        ELSE CASE type \in {"rectangle", "blur"} ->
                    [w EXCEPT !.state[ListOf(type)][i] =
                        [@ EXCEPT !.x = newBounds.x, !.y = newBounds.y,
                                  !.width = newBounds.width, !.height = newBounds.height]]
               [] type = "ellipse" ->
                    [w EXCEPT !.state.ellipses[i] =
                        [@ EXCEPT !.centerX = newBounds.x + newBounds.width \div 2,
                                  !.centerY = newBounds.y + newBounds.height \div 2,
                                  !.radiusX = newBounds.width \div 2,
                                  !.radiusY = newBounds.height \div 2,
                                  !.startX = newBounds.x,
                                  !.startY = newBounds.y]]
               [] type = "arrow" ->
                    [w EXCEPT !.state.arrows[i] =
                        [@ EXCEPT !.startX = sx(@), !.startY = sy(@),
                                  !.endX = sx(@), !.endY = sy(@)]]
               [] type = "stroke" ->
                    LET pts == PointsOf(<<w.state.strokes[i]>>)
                    IN  [w EXCEPT !.heap = [a \in DOMAIN @ |->
                            IF a \in pts THEN [x |-> sx(@[a].x), y |-> sy(@[a].y)]
                            ELSE @[a]]]
               [] type = "text" ->
                    [w EXCEPT !.state.texts[i] =
                        [@ EXCEPT !.x = newBounds.x + textPadding * Unit,
                                  !.y = newBounds.y + w.state.texts[i].fontSize * Unit]]
               [] OTHER -> w

resizeAnnotation(w, id, type, mode, dx, dy, original) ==
    applyBoundsToAnnotation(w, id, type, resizeBounds(mode, dx, dy, original), original)

-----------------------------------------------------------------------------
(* state.js *)

clearSelection_keepsDrag(w) ==
    [w EXCEPT !.state.selectedAnnotation = 0,
              !.state.selectedType = "null",
              !.state.selectedIndex = 0,
              !.state.originalBounds = Null]

clearSelection(w) ==
    [w EXCEPT !.state.selectedAnnotation = 0,
              !.state.selectedType = "null",
              !.state.selectedIndex = 0,
              !.state.dragMode = "null",
              !.state.originalBounds = Null]

-----------------------------------------------------------------------------
(* history.js *)

\* the copies saveToHistory and restoreFromHistory make of one annotation;
\* [...stroke.points] is a new array of the same point objects
copyStroke(stroke) ==
    [Stroke(stroke.color, stroke.lineWidth) EXCEPT !.points = stroke.points]

copyArrow(arrow) ==
    [Arrow(arrow.startX, arrow.startY, arrow.color, arrow.lineWidth)
        EXCEPT !.endX = arrow.endX, !.endY = arrow.endY]

copyRectangle(rect) ==
    [Rectangle(rect.x, rect.y, rect.color, rect.lineWidth, rect.filled)
        EXCEPT !.width = rect.width, !.height = rect.height]

copyEllipse(ellipse) ==
    [Ellipse(ellipse.startX, ellipse.startY, ellipse.color, ellipse.lineWidth,
             ellipse.filled)
        EXCEPT !.centerX = ellipse.centerX, !.centerY = ellipse.centerY,
               !.radiusX = ellipse.radiusX, !.radiusY = ellipse.radiusY]

copyBlur(blur) ==
    [BlurRegion(blur.x, blur.y) EXCEPT !.width = blur.width, !.height = blur.height]

copyText(text) == TextAnnotation(text.x, text.y, text.text, text.fontSize, text.color)

\* the six lists, copied annotation by annotation
copyLists(s) ==
    [strokes |-> [i \in 1..Len(s.strokes) |-> copyStroke(s.strokes[i])],
     arrows |-> [i \in 1..Len(s.arrows) |-> copyArrow(s.arrows[i])],
     rectangles |-> [i \in 1..Len(s.rectangles) |-> copyRectangle(s.rectangles[i])],
     ellipses |-> [i \in 1..Len(s.ellipses) |-> copyEllipse(s.ellipses[i])],
     blurs |-> [i \in 1..Len(s.blurs) |-> copyBlur(s.blurs[i])],
     texts |-> [i \in 1..Len(s.texts) |-> copyText(s.texts[i])]]

\* what a set of six lists looks like: every stroke with the coordinates its
\* points have in the heap
Value(lists, h) ==
    [lists EXCEPT !.strokes =
        [i \in 1..Len(@) |->
            [@[i] EXCEPT !.points = [j \in 1..Len(@) |-> h[@[j]]]]]]

Lists(s) == [l \in LISTS |-> s[l]]

\* the live scene, by value
Scene(w) == Value(Lists(w.state), w.heap)

-----------------------------------------------------------------------------
(* draft.js.  A data URL is modelled by its length, 0 for null or empty.     *)
(* chrome.storage.local holds the draft by value.  An await of the storage   *)
(* is taken with the rest of its function, in one step.                      *)

\* data URLs of the largest image within the size limit and of the smallest
\* one over it
SmallImage == MAX_STORAGE_SIZE
LargeImage == MAX_STORAGE_SIZE + 1

\* what chrome.storage.local.set does: it succeeds, fails on the quota, or
\* fails otherwise
OUTCOMES == {"ok", "quota", "error"}

\* the module variables of draft.js after loading, the empty storage, no
\* modal; `cleared` (ghost) tells whether clearDraft() has run since the last
\* startAutoSave(), and whether a draft has been stored since
\* the module variables of draft.js, the storage and the two modals. A timer is
\* named by its id: debounceTimer is the id the variable holds (0 is null),
\* timeouts the ids of the debounce timers that are set and have not fired,
\* saving the debounce callbacks that wait for chrome.storage.local.set, each
\* with the draft object it passed. notified counts the calls of
\* onStorageErrorCallback made for the save attempt that completed last.
InitialDraft ==
    [debounceTimer |-> 0,
     timeouts |-> {},
     saving |-> {},
     notified |-> 0,
     autoSaveIntervalId |-> FALSE,
     currentImageDataUrl |-> 0,
     lastSaveError |-> "null",
     storage |-> Null,
     storageErrorModal |-> FALSE,
     largeImageModal |-> FALSE,
     imageSrc |-> 0,
     cleared |-> "no"]

checkImageSize(imageDataUrl) ==
    [ok |-> ~(imageDataUrl > MAX_STORAGE_SIZE), size |-> imageDataUrl]

\* the plain objects of the six lists; [...stroke.points] is a new array of
\* the same point objects
serializeAnnotations(w) ==
    LET s == w.state
    IN  [strokes |-> [i \in 1..Len(s.strokes) |->
                        [type |-> "stroke", points |-> s.strokes[i].points,
                         color |-> s.strokes[i].color,
                         lineWidth |-> s.strokes[i].lineWidth]],
         arrows |-> [i \in 1..Len(s.arrows) |->
                        [type |-> "arrow",
                         startX |-> s.arrows[i].startX, startY |-> s.arrows[i].startY,
                         endX |-> s.arrows[i].endX, endY |-> s.arrows[i].endY,
                         color |-> s.arrows[i].color,
                         lineWidth |-> s.arrows[i].lineWidth]],
         rectangles |-> [i \in 1..Len(s.rectangles) |->
                        [type |-> "rectangle",
                         x |-> s.rectangles[i].x, y |-> s.rectangles[i].y,
                         width |-> s.rectangles[i].width,
                         height |-> s.rectangles[i].height,
                         color |-> s.rectangles[i].color,
                         lineWidth |-> s.rectangles[i].lineWidth,
                         filled |-> s.rectangles[i].filled]],
         ellipses |-> [i \in 1..Len(s.ellipses) |->
                        [type |-> "ellipse",
                         startX |-> s.ellipses[i].startX, startY |-> s.ellipses[i].startY,
                         centerX |-> s.ellipses[i].centerX,
                         centerY |-> s.ellipses[i].centerY,
                         radiusX |-> s.ellipses[i].radiusX,
                         radiusY |-> s.ellipses[i].radiusY,
                         color |-> s.ellipses[i].color,
                         lineWidth |-> s.ellipses[i].lineWidth,
                         filled |-> s.ellipses[i].filled]],
         blurs |-> [i \in 1..Len(s.blurs) |->
                        [type |-> "blur", x |-> s.blurs[i].x, y |-> s.blurs[i].y,
                         width |-> s.blurs[i].width, height |-> s.blurs[i].height]],
         texts |-> [i \in 1..Len(s.texts) |->
                        [type |-> "text", x |-> s.texts[i].x, y |-> s.texts[i].y,
                         text |-> s.texts[i].text, fontSize |-> s.texts[i].fontSize,
                         color |-> s.texts[i].color]]]

\* the value of a saveDraft() that does not look at the size of the image
saveDraftResult_sizeUnchecked(w, imageDataUrl, outcome) ==
    IF imageDataUrl = 0 THEN [success |-> FALSE, quotaExceeded |-> FALSE]
    ELSE IF outcome = "ok" THEN [success |-> TRUE, quotaExceeded |-> FALSE]
    ELSE [success |-> FALSE, quotaExceeded |-> (outcome = "quota")]

\* the value saveDraft() resolves to; quotaExceeded is absent (falsy) where
\* the code does not set it
saveDraftResult(w, imageDataUrl, outcome) ==
    IF imageDataUrl = 0 THEN [success |-> FALSE, quotaExceeded |-> FALSE]
    ELSE IF ~checkImageSize(imageDataUrl).ok
    THEN [success |-> FALSE, quotaExceeded |-> TRUE]
    ELSE IF outcome = "ok" THEN [success |-> TRUE, quotaExceeded |-> FALSE]
    ELSE [success |-> FALSE, quotaExceeded |-> (outcome = "quota")]

\* saveDraft(): what it does to the module variables, the storage and the
\* storage-error modal (onStorageErrorCallback is set by init())
\* the draft object saveDraft() passes to chrome.storage.local.set
draftObject(w, imageDataUrl) ==
    [imageDataUrl |-> imageDataUrl,
     annotations |-> Value(serializeAnnotations(w), w.heap)]

\* saveDraft() from the settling of chrome.storage.local.set on: the try
\* block after the await, or the catch block
saveDraftSettled(w, stored, outcome) ==
    IF outcome = "ok"
    THEN [w EXCEPT !.draft.storage = Some(stored),
                   !.draft.lastSaveError = "null",
                   !.draft.notified = 0,
                   !.draft.cleared = IF @ = "no" THEN "no" ELSE "written"]
    ELSE IF outcome = "quota"
    THEN [w EXCEPT !.draft.lastSaveError = "quota",
                   !.draft.notified = 1,
                   !.draft.storageErrorModal = TRUE]
    ELSE [w EXCEPT !.draft.lastSaveError = "unknown", !.draft.notified = 0]

\* saveDraft() up to the await: TRUE if it calls chrome.storage.local.set
saveDraftWrites(imageDataUrl) ==
    imageDataUrl # 0 /\ checkImageSize(imageDataUrl).ok

\* saveDraft() that returns before the await
saveDraftReturned(w, imageDataUrl) ==
    IF imageDataUrl = 0 THEN [w EXCEPT !.draft.notified = 0]
    ELSE [w EXCEPT !.draft.lastSaveError = "size", !.draft.notified = 0]

\* saveDraft() with nothing run between the call of
\* chrome.storage.local.set and its settling: what it does to the module
\* variables, the storage and the storage-error modal
\* (onStorageErrorCallback is set by init())
saveDraft(w, imageDataUrl, outcome) ==
    IF saveDraftWrites(imageDataUrl)
    THEN saveDraftSettled(w, draftObject(w, imageDataUrl), outcome)
    ELSE saveDraftReturned(w, imageDataUrl)

\* scheduleDraftSave(): a pending debounce timer is replaced by a new one
\* clearTimeout(debounceTimer): a no-op when that timer has fired already
clearTimeout(timeouts, id) == timeouts \ {id}

\* the id setTimeout returns: one that no timer set or running has
setTimeout(used) == CHOOSE id \in 1..(Cardinality(used) + 1) :
                        /\ id \notin used
                        /\ \A other \in 1..(id - 1) : other \in used

scheduleDraftSave(w, imageDataUrl) ==
    LET d == w.draft
        kept == IF d.debounceTimer # 0 THEN clearTimeout(d.timeouts, d.debounceTimer)
                ELSE d.timeouts
        id == setTimeout(kept \cup {job.timer : job \in d.saving})
    IN  [w EXCEPT !.draft.currentImageDataUrl = imageDataUrl,
                  !.draft.timeouts = kept \cup {id},
                  !.draft.debounceTimer = id]

\* the callback of the debounce timer from the settling of saveDraft() on
debounceSaved(w, quotaExceeded) ==
    [w EXCEPT !.draft.debounceTimer = 0,
              !.draft.notified = IF quotaExceeded THEN @ + 1 ELSE @,
              !.draft.storageErrorModal = @ \/ quotaExceeded]

\* debounce timer id fires: its callback runs up to the await, and to its end
\* when saveDraft() returns without a call of chrome.storage.local.set
debounceFired(w, id) ==
    LET url == w.draft.currentImageDataUrl
        fired == [w EXCEPT !.draft.timeouts = @ \ {id}]
    IN  IF saveDraftWrites(url)
        THEN [fired EXCEPT !.draft.saving =
                  @ \cup {[timer |-> id, stored |-> draftObject(w, url)]}]
        ELSE debounceSaved(saveDraftReturned(fired, url),
                           saveDraftResult(w, url, "ok").quotaExceeded)

\* chrome.storage.local.set of a waiting debounce callback settles: the rest
\* of saveDraft() and of the callback run
debounceSettled(w, job, outcome) ==
    LET url == job.stored.imageDataUrl
        settled == saveDraftSettled([w EXCEPT !.draft.saving = @ \ {job}],
                                    job.stored, outcome)
    IN  debounceSaved(settled, saveDraftResult(w, url, outcome).quotaExceeded)

\* the callback of the debounce timer debounceTimer holds, with nothing run
\* between the call of chrome.storage.local.set and its settling
debounceTimeout(w, outcome) ==
    LET id == w.draft.debounceTimer
        fired == debounceFired(w, id)
        jobs == {job \in fired.draft.saving : job.timer = id}
    IN  IF jobs = {} THEN fired
        ELSE debounceSettled(fired, CHOOSE job \in jobs : TRUE, outcome)

stopAutoSave(w) ==
    [w EXCEPT !.draft.autoSaveIntervalId = FALSE,
              !.draft.timeouts = IF w.draft.debounceTimer # 0
                                 THEN clearTimeout(@, w.draft.debounceTimer) ELSE @,
              !.draft.debounceTimer = 0]

startAutoSave(w, imageDataUrl) ==
    [stopAutoSave([w EXCEPT !.draft.currentImageDataUrl = imageDataUrl])
        EXCEPT !.draft.autoSaveIntervalId = TRUE,
               !.draft.cleared = "no"]

\* the callback of the auto-save interval
autoSaveInterval(w, outcome) ==
    IF w.draft.currentImageDataUrl # 0
    THEN saveDraft(w, w.draft.currentImageDataUrl, outcome)
    ELSE w

\* clearDraft(); chrome.storage.local.remove succeeds or fails
clearDraft(w, removed) ==
    [stopAutoSave(w) EXCEPT !.draft.currentImageDataUrl = 0,
                            !.draft.lastSaveError = "null",
                            !.draft.storage = IF removed THEN Null ELSE @,
                            !.draft.cleared = "cleared"]

setDraftImageUrl(w, imageDataUrl) ==
    [w EXCEPT !.draft.currentImageDataUrl = imageDataUrl]

\* the tail of saveToHistory() and of restoreFromHistory()
draftSaveIfImage(w) ==
    IF w.state.image THEN scheduleDraftSave(w, w.draft.imageSrc) ELSE w

\* the cap tested with >= : the entry is evicted one call early
evict_early(history) ==
    IF Len(history) >= maxEntries THEN Tail(history) ELSE history

\* the redo tail is kept
truncate_never(history, historyIndex) == history

\* state.history.slice(0, state.historyIndex + 1)
truncate(history, historyIndex) ==
    IF historyIndex < Len(history) - 1
    THEN SubSeq(history, 1, historyIndex + 1) ELSE history

\* history.shift() and historyIndex-- once the cap is exceeded
evict(history) ==
    IF Len(history) > maxEntries THEN Tail(history) ELSE history

\* saveToHistory() that does not step historyIndex back when the oldest entry
\* is evicted
saveToHistory_indexKept(w) ==
    LET s == w.state
        pushed == Append(truncate(s.history, s.historyIndex), copyLists(s))
    IN  [w EXCEPT !.state.history = evict(pushed),
                  !.state.historyIndex = Len(pushed) - 1]

saveToHistory(w) ==
    LET s == w.state
        kept == truncate(s.history, s.historyIndex)
        historyEntry == copyLists(s)
        pushed == Append(kept, historyEntry)
        capped == evict(pushed)
    IN  draftSaveIfImage(
            [w EXCEPT !.state.history = capped,
                      !.state.historyIndex = (Len(pushed) - 1) - (Len(pushed) - Len(capped)),
                      !.callLog = IF @ = Null THEN Null
                                  ELSE Some(Append(Val(@), Value(historyEntry, w.heap)))])

\* the new objects of a restored scene get new identities
restoredIdentity(lists) ==
    LET n1 == Len(lists.strokes)
        n2 == n1 + Len(lists.arrows)
        n3 == n2 + Len(lists.rectangles)
        n4 == n3 + Len(lists.ellipses)
        n5 == n4 + Len(lists.blurs)
    IN  [strokes |-> [i \in 1..Len(lists.strokes) |-> i],
         arrows |-> [i \in 1..Len(lists.arrows) |-> n1 + i],
         rectangles |-> [i \in 1..Len(lists.rectangles) |-> n2 + i],
         ellipses |-> [i \in 1..Len(lists.ellipses) |-> n3 + i],
         blurs |-> [i \in 1..Len(lists.blurs) |-> n4 + i],
         texts |-> [i \in 1..Len(lists.texts) |-> n5 + i]]


restoreFromHistory_keepsSelection(w) ==
    LET entry == w.state.history[w.state.historyIndex + 1]
        lists == copyLists(entry)
    IN  draftSaveIfImage(
            [w EXCEPT !.state.strokes = lists.strokes,
                      !.state.arrows = lists.arrows,
                      !.state.rectangles = lists.rectangles,
                      !.state.ellipses = lists.ellipses,
                      !.state.blurs = lists.blurs,
                      !.state.texts = lists.texts,
                      !.identity = restoredIdentity(lists),
                      !.callLog = Null])

restoreFromHistory(w) ==
    LET c == clearSelection(w)
        entry == c.state.history[c.state.historyIndex + 1]
        lists == copyLists(entry)
    IN  draftSaveIfImage(
            [c EXCEPT !.state.strokes = lists.strokes,
                      !.state.arrows = lists.arrows,
                      !.state.rectangles = lists.rectangles,
                      !.state.ellipses = lists.ellipses,
                      !.state.blurs = lists.blurs,
                      !.state.texts = lists.texts,
                      !.identity = restoredIdentity(lists),
                      !.callLog = Null])

undo(w) ==
    IF w.state.historyIndex > 0
    THEN restoreFromHistory([w EXCEPT !.state.historyIndex = @ - 1])
    ELSE w


redo_wraps(w) ==
    IF w.state.historyIndex < Len(w.state.history) - 1
    THEN restoreFromHistory([w EXCEPT !.state.historyIndex = @ + 1])
    ELSE IF w.state.history # <<>>
    THEN restoreFromHistory([w EXCEPT !.state.historyIndex = 0])
    ELSE w

redo(w) ==
    IF w.state.historyIndex < Len(w.state.history) - 1
    THEN restoreFromHistory([w EXCEPT !.state.historyIndex = @ + 1])
    ELSE w

-----------------------------------------------------------------------------
(* tools/text-tool.js *)

\* a text is a sequence of characters; " " is the white space
RECURSIVE trimStart(_)
trimStart(text) ==
    IF text # <<>> /\ Head(text) = " " THEN trimStart(Tail(text)) ELSE text

RECURSIVE trimEnd(_)
trimEnd(text) ==
    IF text # <<>> /\ text[Len(text)] = " "
    THEN trimEnd(SubSeq(text, 1, Len(text) - 1)) ELSE text

trim(text) == trimEnd(trimStart(text))

showTextInput(w, coords) ==
    [w EXCEPT !.textInput.value = <<>>,
              !.state.isEditingText = TRUE,
              !.state.pendingText =
                  Some([x |-> coords.x,
                        y |-> coords.y + textBaseline(w.state.fontSize * Unit),
                        fontSize |-> w.state.fontSize,
                        color |-> w.state.color]),
              !.timers.focus = @ + 1]

\* hide the input: the tail of confirmTextInput and the body of cancelTextInput
hideTextInput(w) ==
    [w EXCEPT !.textInput.value = <<>>,
              !.state.isEditingText = FALSE,
              !.state.pendingText = Null]


confirmTextInput_staysOpen(w) ==
    LET text == trim(w.textInput.value)
        pending == w.state.pendingText
    IN  IF text # <<>> /\ pending # Null
        THEN saveToHistory(Push(w, "texts",
                TextAnnotation(Val(pending).x, Val(pending).y, text,
                               Val(pending).fontSize, Val(pending).color)))
        ELSE hideTextInput(w)

confirmTextInput(w) ==
    LET text == trim(w.textInput.value)
        pending == w.state.pendingText
    IN  IF text # <<>> /\ pending # Null
        THEN hideTextInput(saveToHistory(Push(w, "texts",
                TextAnnotation(Val(pending).x, Val(pending).y, text,
                               Val(pending).fontSize, Val(pending).color))))
        ELSE hideTextInput(w)

cancelTextInput(w) == hideTextInput(w)

\* the user types: the value of the input element becomes text
input(w, text) == [w EXCEPT !.textInput.value = text]

\* the blur listener of the input: the input loses the focus and the delayed
\* confirmation is scheduled
blur(w) == [w EXCEPT !.textInput.focused = FALSE, !.timers.blur = @ + 1]

\* the timer callback of the blur listener
blurTimeout(w) ==
    LET fired == [w EXCEPT !.timers.blur = @ - 1]
    IN  IF w.state.isEditingText THEN confirmTextInput(fired) ELSE fired

\* the timer callback of showTextInput: input.focus(), which takes effect
\* only while the input is displayed
focusTimeout(w) ==
    [w EXCEPT !.timers.focus = @ - 1,
              !.textInput.focused = @ \/ w.state.isEditingText]

-----------------------------------------------------------------------------
(* tools/tool-manager.js: frame throttling and the pointer handlers *)

\* the current* field a drawing tool works on
CurrentOf(tool) ==
    CASE tool = "pen" -> "currentStroke"
      [] tool = "arrow" -> "currentArrow"
      [] tool = "rectangle" -> "currentRectangle"
      [] tool = "circle" -> "currentEllipse"
      [] tool = "blur" -> "currentBlur"

DRAWING == {"pen", "arrow", "rectangle", "circle", "blur"}
SHAPES == {"arrow", "rectangle", "circle", "blur"}

setEnd(tool, a, x, y) ==
    CASE tool = "arrow" -> ArrowSetEnd(a, x, y)
      [] tool = "rectangle" -> RectSetEnd(a, x, y)
      [] tool = "circle" -> EllipseSetEnd(a, x, y)
      [] tool = "blur" -> BlurSetEnd(a, x, y)


scheduleShapeRedraw_unguarded(w, coords) ==
    [w EXCEPT !.pendingCoords = Some(coords),
              !.rafId = 1,
              !.frames = @ + 1]

scheduleShapeRedraw(w, coords) ==
    IF w.rafId # 0 THEN [w EXCEPT !.pendingCoords = Some(coords)]
    ELSE [w EXCEPT !.pendingCoords = Some(coords),
                   !.rafId = 1,
                   !.frames = @ + 1]

\* the callback passed to requestAnimationFrame
frameCallback(w) ==
    LET s == w.state
        tool == s.currentTool
        applied ==
            IF /\ w.pendingCoords # Null
               /\ s.isDrawing
               /\ tool \in SHAPES
               /\ s[CurrentOf(tool)] # Null
            THEN [w EXCEPT !.state[CurrentOf(tool)] =
                    Some(setEnd(tool, Val(@), Val(w.pendingCoords).x,
                                Val(w.pendingCoords).y))]
            ELSE w
    IN  [applied EXCEPT !.rafId = 0, !.pendingCoords = Null, !.frames = @ - 1]



handleSelectMouseDown_selectsCopy(w, coords) ==
    LET s == w.state
        bounds == IF s.selectedAnnotation # 0
                  THEN ObjectBounds(w, s.selectedType, s.selectedAnnotation)
                  ELSE Null
        handle == IF bounds # Null
                  THEN getHandleAtPoint(coords.x, coords.y, Val(bounds))
                  ELSE "null"
        hit == findAnnotationAtPoint(w, coords.x, coords.y)
    IN  IF handle # "null"
        THEN saveToHistory([w EXCEPT !.state.dragMode = handle,
                                     !.state.dragStartX = coords.x,
                                     !.state.dragStartY = coords.y,
                                     !.state.originalBounds = bounds])
        ELSE IF hit # Null
        THEN saveToHistory(
                [w EXCEPT !.state.selectedAnnotation = NewId(w),
                          !.state.selectedType = Val(hit).type,
                          !.state.selectedIndex = Val(hit).index,
                          !.state.dragMode = "move",
                          !.state.dragStartX = coords.x,
                          !.state.dragStartY = coords.y,
                          !.state.originalBounds =
                              ObjectBounds(w, Val(hit).type, Val(hit).annotation)])
        ELSE clearSelection(w)

handleSelectMouseDown_hitFirst(w, coords) ==
    LET s == w.state
        bounds == IF s.selectedAnnotation # 0
                  THEN ObjectBounds(w, s.selectedType, s.selectedAnnotation)
                  ELSE Null
        handle == IF bounds # Null
                  THEN getHandleAtPoint(coords.x, coords.y, Val(bounds))
                  ELSE "null"
        hit == findAnnotationAtPoint(w, coords.x, coords.y)
    IN  IF hit # Null
        THEN saveToHistory(
                [w EXCEPT !.state.selectedAnnotation = Val(hit).annotation,
                          !.state.selectedType = Val(hit).type,
                          !.state.selectedIndex = Val(hit).index,
                          !.state.dragMode = "move",
                          !.state.dragStartX = coords.x,
                          !.state.dragStartY = coords.y,
                          !.state.originalBounds =
                              ObjectBounds(w, Val(hit).type, Val(hit).annotation)])
        ELSE IF handle # "null"
        THEN saveToHistory([w EXCEPT !.state.dragMode = handle,
                                     !.state.dragStartX = coords.x,
                                     !.state.dragStartY = coords.y,
                                     !.state.originalBounds = bounds])
        ELSE clearSelection(w)

handleSelectMouseDown(w, coords) ==
    LET s == w.state
        bounds == IF s.selectedAnnotation # 0
                  THEN ObjectBounds(w, s.selectedType, s.selectedAnnotation)
                  ELSE Null
        handle == IF bounds # Null
                  THEN getHandleAtPoint(coords.x, coords.y, Val(bounds))
                  ELSE "null"
        hit == findAnnotationAtPoint(w, coords.x, coords.y)
    IN  IF handle # "null"
        THEN saveToHistory([w EXCEPT !.state.dragMode = handle,
                                     !.state.dragStartX = coords.x,
                                     !.state.dragStartY = coords.y,
                                     !.state.originalBounds = bounds])
        ELSE IF hit # Null
        THEN saveToHistory(
                [w EXCEPT !.state.selectedAnnotation = Val(hit).annotation,
                          !.state.selectedType = Val(hit).type,
                          !.state.selectedIndex = Val(hit).index,
                          !.state.dragMode = "move",
                          !.state.dragStartX = coords.x,
                          !.state.dragStartY = coords.y,
                          !.state.originalBounds =
                              ObjectBounds(w, Val(hit).type, Val(hit).annotation)])
        ELSE clearSelection(w)

handleSelectMouseMove(w, coords) ==
    LET s == w.state
        dx == coords.x - s.dragStartX
        dy == coords.y - s.dragStartY
    IN  IF s.dragMode = "move"
        THEN [moveAnnotation(w, s.selectedAnnotation, s.selectedType, dx, dy)
                EXCEPT !.state.dragStartX = coords.x,
                       !.state.dragStartY = coords.y]
        ELSE IF s.dragMode # "null" /\ s.originalBounds # Null
        THEN resizeAnnotation(w, s.selectedAnnotation, s.selectedType, s.dragMode,
                              dx, dy, Val(s.originalBounds))
        ELSE w

\* handleMouseDown whose pen branch does not add the pointer-down position to
\* the new stroke
handleMouseDown_noFirstPoint(w, coords) ==
    IF ~w.state.isEditingText /\ w.state.currentTool = "pen"
    THEN [w EXCEPT !.state.isDrawing = TRUE,
                   !.state.currentStroke =
                       Some(Stroke(w.state.color, w.state.lineWidth))]
    ELSE w

handleMouseDown(w, coords) ==
    LET s == w.state
        tool == s.currentTool
    IN  IF s.isEditingText THEN confirmTextInput(w)
        ELSE IF tool = "select" THEN handleSelectMouseDown(w, coords)
        ELSE IF tool = "text" THEN showTextInput(w, coords)
        ELSE IF tool = "pen"
        THEN [w EXCEPT !.state.isDrawing = TRUE,
                       !.state.currentStroke =
                           Some(addPoint(Stroke(s.color, s.lineWidth), w.heap)),
                       !.heap = addPointHeap(@, coords.x, coords.y)]
        ELSE IF tool = "arrow"
        THEN [w EXCEPT !.state.isDrawing = TRUE,
                       !.state.currentArrow =
                           Some(Arrow(coords.x, coords.y, s.color, s.lineWidth))]
        ELSE IF tool = "rectangle"
        THEN [w EXCEPT !.state.isDrawing = TRUE,
                       !.state.currentRectangle =
                           Some(Rectangle(coords.x, coords.y, s.color, s.lineWidth,
                                          s.filled))]
        ELSE IF tool = "circle"
        THEN [w EXCEPT !.state.isDrawing = TRUE,
                       !.state.currentEllipse =
                           Some(Ellipse(coords.x, coords.y, s.color, s.lineWidth,
                                        s.filled))]
        ELSE IF tool = "blur"
        THEN [w EXCEPT !.state.isDrawing = TRUE,
                       !.state.currentBlur = Some(BlurRegion(coords.x, coords.y))]
        ELSE [w EXCEPT !.state.isDrawing = FALSE]

handleMouseMove(w, coords) ==
    LET s == w.state
    IN  IF s.currentTool = "select" /\ s.dragMode # "null" /\ s.selectedAnnotation # 0
        THEN handleSelectMouseMove(w, coords)
        ELSE IF ~s.isDrawing THEN w
        ELSE IF s.currentTool = "pen" /\ s.currentStroke # Null
        THEN [w EXCEPT !.state.currentStroke = Some(addPoint(Val(@), w.heap)),
                       !.heap = addPointHeap(@, coords.x, coords.y)]
        ELSE scheduleShapeRedraw(w, coords)

\* the arrow tested against minShapeSize
crossesThreshold_arrowAsShape(tool, a) ==
    CASE tool = "pen" -> Len(a.points) > 0
      [] tool = "arrow" ->
            LET dx == a.endX - a.startX
                dy == a.endY - a.startY
            IN  dx * dx + dy * dy > (minShapeSize * Unit) * (minShapeSize * Unit)
      [] tool \in {"rectangle", "blur"} ->
            Abs(a.width) + Abs(a.height) > minShapeSize * Unit
      [] tool = "circle" ->
            a.radiusX + a.radiusY > minArrowLength * Unit

\* the commit test of handleMouseUp for the in-progress annotation of a tool
crossesThreshold(tool, a) ==
    CASE tool = "pen" -> Len(a.points) > 0
      [] tool = "arrow" ->
            LET dx == a.endX - a.startX
                dy == a.endY - a.startY
            IN  dx * dx + dy * dy > (minArrowLength * Unit) * (minArrowLength * Unit)
      [] tool \in {"rectangle", "blur"} ->
            Abs(a.width) + Abs(a.height) > minShapeSize * Unit
      [] tool = "circle" ->
            a.radiusX + a.radiusY > minArrowLength * Unit

ListOfTool(tool) ==
    CASE tool = "pen" -> "strokes"
      [] tool = "arrow" -> "arrows"
      [] tool = "rectangle" -> "rectangles"
      [] tool = "circle" -> "ellipses"
      [] tool = "blur" -> "blurs"

handleMouseUp(w) ==
    LET s == w.state
        tool == s.currentTool
        cancelled == [w EXCEPT !.rafId = 0,
                               !.pendingCoords = IF w.rafId # 0 THEN Null ELSE @,
                               !.frames = IF w.rafId # 0 /\ @ > 0 THEN @ - 1 ELSE @,
                               !.state.isDrawing = FALSE]
    IN  IF tool = "select" THEN [w EXCEPT !.state.dragMode = "null"]
        ELSE IF ~s.isDrawing THEN w
        ELSE IF tool \in DRAWING /\ s[CurrentOf(tool)] # Null
        THEN LET current == Val(s[CurrentOf(tool)])
                 committed ==
                    IF crossesThreshold(tool, current)
                    THEN saveToHistory(Push(cancelled, ListOfTool(tool), current))
                    ELSE cancelled
             IN  [committed EXCEPT !.state[CurrentOf(tool)] = Null]
        ELSE cancelled

-----------------------------------------------------------------------------
(* toolbar.js and the keyboard shortcuts of editor.js *)


toolButtonClick_keepsSelection(w, tool) ==
    IF tool = "undo" THEN undo(w)
    ELSE IF tool = "redo" THEN redo(w)
    ELSE LET a == IF w.state.isEditingText THEN cancelTextInput(w) ELSE w
         IN  [a EXCEPT !.state.currentTool = tool]

\* the open text session is confirmed, not cancelled
toolButtonClick_confirms(w, tool) ==
    IF tool = "undo" THEN undo(w)
    ELSE IF tool = "redo" THEN redo(w)
    ELSE LET a == IF w.state.isEditingText THEN confirmTextInput(w) ELSE w
             b == IF a.state.currentTool = "select" /\ tool # "select"
                  THEN clearSelection(a) ELSE a
         IN  [b EXCEPT !.state.currentTool = tool]

\* the click handler of a .tool-btn[data-tool] button
toolButtonClick(w, tool) ==
    IF tool = "undo" THEN undo(w)
    ELSE IF tool = "redo" THEN redo(w)
    ELSE LET a == IF w.state.isEditingText THEN cancelTextInput(w) ELSE w
             b == IF a.state.currentTool = "select" /\ tool # "select"
                  THEN clearSelection(a) ELSE a
         IN  [b EXCEPT !.state.currentTool = tool]

selectTool(w, tool) == toolButtonClick(w, tool)

ToolKey(key) ==
    CASE key = "s" -> "select"
      [] key = "p" -> "pen"
      [] key = "t" -> "text"
      [] key = "r" -> "rectangle"
      [] key = "c" -> "circle"
      [] key = "a" -> "arrow"
      [] key = "b" -> "blur"

KEYS == {"ctrl+z", "ctrl+y", "ctrl+s", "s", "p", "t", "r", "c", "a", "b"}

\* downloadImage() reads the canvas into a data URL and clicks a link: it
\* writes no field of the editor's state
downloadImage(w) == w

\* the keydown listener without its first line: shortcuts are processed
\* during a text session too
keydown_unguarded(w, key) ==
    IF key = "ctrl+z" THEN undo(w)
    ELSE IF key = "ctrl+y" THEN redo(w)
    ELSE IF key = "ctrl+s" THEN downloadImage(w)
    ELSE IF key \in {"s", "p", "t", "r", "c", "a", "b"} THEN selectTool(w, ToolKey(key))
    ELSE w

\* the keydown listener of the document
keydown(w, key) ==
    IF w.state.isEditingText THEN w
    ELSE IF key = "ctrl+z" THEN undo(w)
    ELSE IF key = "ctrl+y" THEN redo(w)
    ELSE IF key = "ctrl+s" THEN downloadImage(w)
    ELSE IF key \in {"s", "p", "t", "r", "c", "a", "b"} THEN selectTool(w, ToolKey(key))
    ELSE w

\* the keydown listener of the text input, followed by the document's
inputKeydown(w, key) ==
    IF key = "Enter" THEN keydown(confirmTextInput(w), key)
    ELSE IF key = "Escape" THEN keydown(cancelTextInput(w), key)
    ELSE keydown(w, key)

-----------------------------------------------------------------------------
(* The popup: captureWithRetry() *)

NON_RETRYABLE == {"PROTECTED_PAGE", "PERMISSION_DENIED", "SCRIPT_INJECTION_FAILED"}

isRetryableError_always(errorType) == TRUE

isRetryableError(errorType) == errorType \notin NON_RETRYABLE

\* what one attempt can end with: Promise.race resolves with the response of
\* the background process (a success, an error of one of the types, or no
\* response at all), or it rejects, because the 10 s timeout passed or
\* because sendMessage failed
SETTLINGS ==
    {"success", "empty", "timeout", "rejected",
     "PROTECTED_PAGE", "PERMISSION_DENIED", "SCRIPT_INJECTION_FAILED",
     "CAPTURE_FAILED", "UNKNOWN"}

REJECTIONS == {"timeout", "rejected"}

\* the response object of a settling that resolves; an empty response has
\* neither success nor error
Response(settling) ==
    IF settling = "success" THEN [success |-> TRUE, error |-> FALSE, errorType |-> "null"]
    ELSE IF settling = "empty"
    THEN [success |-> FALSE, error |-> FALSE, errorType |-> "null"]
    ELSE [success |-> FALSE, error |-> TRUE, errorType |-> settling]

\* the call of captureWithRetry(): where it is (no call yet; waiting for the
\* race; waiting for delay(500); returned; thrown), its maxRetries, i and
\* lastResponse, the value it returned, and as ghosts the requests it has
\* sent and the settlings of its attempts
InitialCapture ==
    [pc |-> "idle", maxRetries |-> 0, i |-> 0, lastResponse |-> Null,
     returned |-> Null, requests |-> 0, settlings |-> <<>>]

\* the head of the for loop and the sendMessage of the try block
captureAttempt(c) ==
    IF c.i <= c.maxRetries
    THEN [c EXCEPT !.pc = "request", !.requests = @ + 1]
    ELSE [c EXCEPT !.pc = "returned", !.returned = Null]

captureWithRetry(w, maxRetries) ==
    [w EXCEPT !.capture =
        captureAttempt([InitialCapture EXCEPT !.maxRetries = maxRetries])]

\* the catch block
captureCaught(c) ==
    IF c.i < c.maxRetries THEN [c EXCEPT !.pc = "delay"]
    ELSE IF c.lastResponse # Null
    THEN [c EXCEPT !.pc = "returned", !.returned = c.lastResponse]
    ELSE [c EXCEPT !.pc = "thrown"]

\* the race of one attempt settles: the rest of the try block, and the catch
\* block when the race rejected or the try block threw
captureSettled(w, settling) ==
    LET c == [w.capture EXCEPT !.settlings = Append(@, settling)]
        response == Response(settling)
        next ==
            IF settling \in REJECTIONS THEN captureCaught(c)
            ELSE IF response.success
            THEN [c EXCEPT !.pc = "returned", !.returned = Some(response)]
            ELSE IF response.error
            THEN LET kept == [c EXCEPT !.lastResponse = Some(response)]
                 IN  IF ~isRetryableError(response.errorType)
                     THEN [kept EXCEPT !.pc = "returned", !.returned = Some(response)]
                     ELSE captureCaught(kept)
            ELSE [c EXCEPT !.pc = "returned", !.returned = Some(Response("success"))]
    IN  [w EXCEPT !.capture = next]

\* delay(500) resolves: i++ and the next turn of the loop
captureDelayed(w) ==
    [w EXCEPT !.capture = captureAttempt([@ EXCEPT !.i = @ + 1])]

-----------------------------------------------------------------------------
(* editor.js: construction and init() *)

InitialState ==
    [image |-> FALSE,
     currentTool |-> "select",
     color |-> defaultColor,
     lineWidth |-> defaultLineWidth,
     fontSize |-> defaultFontSize,
     filled |-> defaultFilled,
     isDrawing |-> FALSE,
     strokes |-> <<>>, currentStroke |-> Null,
     arrows |-> <<>>, currentArrow |-> Null,
     rectangles |-> <<>>, currentRectangle |-> Null,
     ellipses |-> <<>>, currentEllipse |-> Null,
     blurs |-> <<>>, currentBlur |-> Null,
     texts |-> <<>>, isEditingText |-> FALSE, pendingText |-> Null,
     selectedAnnotation |-> 0, selectedType |-> "null", selectedIndex |-> 0,
     dragMode |-> "null", dragStartX |-> 0, dragStartY |-> 0,
     originalBounds |-> Null,
     history |-> <<>>, historyIndex |-> -1]

\* the world after the modules are loaded; the ghost log is kept (logged) or not
NewWorld(logged) ==
    [state |-> InitialState,
     identity |-> [l \in LISTS |-> <<>>],
     heap |-> <<>>,
     rafId |-> 0,
     pendingCoords |-> Null,
     frames |-> 0,
     textInput |-> [value |-> <<>>, focused |-> FALSE],
     timers |-> [blur |-> 0, focus |-> 0],
     callLog |-> IF logged THEN Some(<<>>) ELSE Null,
     draft |-> InitialDraft,
     capture |-> InitialCapture]

IsWorld(w) ==
    /\ state = w.state
    /\ identity = w.identity
    /\ heap = w.heap
    /\ rafId = w.rafId
    /\ pendingCoords = w.pendingCoords
    /\ frames = w.frames
    /\ textInput = w.textInput
    /\ timers = w.timers
    /\ callLog = w.callLog
    /\ draft = w.draft
    /\ capture = w.capture

Constructed(logged) == IsWorld(NewWorld(logged))

\* img.onload of loadImageFromUrl: a data URL is modelled by its length
loadImageFromUrl(w, url) == [w EXCEPT !.state.image = TRUE, !.draft.imageSrc = url]

\* init() with a new image of the given data URL and no draft: the image is
\* set and the empty scene is saved to the history; auto-save starts at once
\* unless the image is over the size limit, and then the large-image warning
\* is shown
initImage(w, url) ==
    LET saved == saveToHistory(loadImageFromUrl(w, url))
    IN  IF checkImageSize(url).ok THEN startAutoSave(saved, url)
        ELSE [saved EXCEPT !.draft.largeImageModal = TRUE]

\* init() with a new image within the size limit
init(w) == initImage(w, SmallImage)

\* canvas.addEventListener('mouseleave', handleMouseUp)
mouseleave(w) == handleMouseUp(w)

-----------------------------------------------------------------------------
(* Events.  Every event runs its handler to completion on the current world; *)
(* a specification takes the step if the new world is within its bounds.     *)

Coords(p) == [x |-> p[1] * Unit, y |-> p[2] * Unit]

\* Addresses are opaque: after every handler the point objects still referred
\* to are renumbered in the order in which the live strokes, the in-progress
\* stroke and the history entries refer to them, and the others are dropped.
StrokeLists(s) ==
    <<s.strokes, IF s.currentStroke = Null THEN <<>> ELSE <<Val(s.currentStroke)>>>>
    \o [i \in 1..Len(s.history) |-> s.history[i].strokes]

RECURSIVE AddressesOf(_)
AddressesOf(strokes) ==
    IF strokes = <<>> THEN <<>>
    ELSE strokes[1].points \o AddressesOf(Tail(strokes))

RECURSIVE Distinct(_, _)
Distinct(addresses, seen) ==
    IF addresses = <<>> THEN <<>>
    ELSE IF Head(addresses) \in seen THEN Distinct(Tail(addresses), seen)
    ELSE <<Head(addresses)>> \o Distinct(Tail(addresses), seen \cup {Head(addresses)})

\* addresses in order of first reference: live strokes, the stroke in
\* progress, then the history entries from oldest to newest
RECURSIVE AddressOrder(_, _, _)
AddressOrder(lists, k, order) ==
    IF k > Len(lists) THEN order
    ELSE AddressOrder(lists, k + 1,
            order \o Distinct(AddressesOf(lists[k]), {order[i] : i \in 1..Len(order)}))

Renumber(w) ==
    LET from == AddressOrder(StrokeLists(w.state), 1, <<>>)
        to == [a \in {from[i] : i \in 1..Len(from)} |->
                  CHOOSE i \in 1..Len(from) : from[i] = a]
        Moved(stroke) == [stroke EXCEPT !.points = [j \in 1..Len(@) |-> to[@[j]]]]
        MovedAll(strokes) == [i \in 1..Len(strokes) |-> Moved(strokes[i])]
    IN  [w EXCEPT !.heap = [i \in 1..Len(from) |-> w.heap[from[i]]],
                  !.state.strokes = MovedAll(@),
                  !.state.currentStroke = IF @ = Null THEN Null ELSE Some(Moved(Val(@))),
                  !.state.history = [i \in 1..Len(@) |->
                                        [@[i] EXCEPT !.strokes = MovedAll(@)]]]

SetWorld(w) ==
    /\ state' = Renumber(w).state
    /\ identity' = w.identity
    /\ heap' = Renumber(w).heap
    /\ rafId' = w.rafId
    /\ pendingCoords' = w.pendingCoords
    /\ frames' = w.frames
    /\ textInput' = w.textInput
    /\ timers' = w.timers
    /\ callLog' = w.callLog
    /\ draft' = w.draft
    /\ capture' = w.capture

\* a resize drag of an arrow or a stroke to coords scales every coordinate
\* without rounding
resizeIsExact(w, coords) ==
    LET s == w.state
        o == Val(s.originalBounds)
        n == resizeBounds(s.dragMode, coords.x - s.dragStartX,
                          coords.y - s.dragStartY, o)
        a == Object(w, s.selectedType, s.selectedAnnotation)
        ex(v) == scaleExact(v, o.x, o.width, n.width)
        ey(v) == scaleExact(v, o.y, o.height, n.height)
    IN  (/\ s.currentTool = "select"
         /\ s.dragMode \notin {"null", "move"}
         /\ s.selectedAnnotation # 0
         /\ s.originalBounds # Null
         /\ Locate(w, s.selectedType, s.selectedAnnotation) # 0
         /\ s.selectedType \in {"arrow", "stroke"})
        => IF s.selectedType = "arrow"
           THEN ex(a.startX) /\ ex(a.endX) /\ ey(a.startY) /\ ey(a.endY)
           ELSE \A j \in 1..Len(a.points) :
                    ex(w.heap[a.points[j]].x) /\ ey(w.heap[a.points[j]].y)

-----------------------------------------------------------------------------
(* The history specification: pen clicks, undo and redo, up to MaxSaves      *)
(* commits, with the log of the saveToHistory() calls.                       *)

HistPoint == {<<100, 100>>}

InHist(w) == NumAnnotations(w.state) <= MaxSaves

HistInit == Constructed(TRUE)

HistPen ==
    LET w == toolButtonClick(World, "pen") IN InHist(w) /\ SetWorld(w)

HistDown ==
    \E p \in HistPoint :
        LET w == handleMouseDown(World, Coords(p)) IN InHist(w) /\ SetWorld(w)

HistUp ==
    LET w == handleMouseUp(World) IN InHist(w) /\ SetWorld(w)

HistUndo ==
    LET w == toolButtonClick(World, "undo") IN InHist(w) /\ SetWorld(w)

HistRedo ==
    LET w == toolButtonClick(World, "redo") IN InHist(w) /\ SetWorld(w)

HistNext == HistPen \/ HistDown \/ HistUp \/ HistUndo \/ HistRedo

SpecHist == HistInit /\ [][HistNext]_vars

\* the history entries, by value
HistoryValue(w) == [i \in 1..Len(w.state.history) |-> Value(w.state.history[i], w.heap)]

\* C1: starting from an empty history, after N <= 20 consecutive
\* saveToHistory() calls the history holds exactly the N snapshots taken, in
\* order, and historyIndex = N - 1; after the 21st call it holds exactly 20
\* entries, the snapshot of the 1st call is gone, the last entry is the
\* snapshot of the 21st call and historyIndex = 19.
C1_FillThenEvict ==
    callLog # Null =>
        LET log == Val(callLog)
            N == Len(log)
            entries == HistoryValue(World)
        IN  /\ N <= maxEntries =>
                /\ Len(state.history) = N
                /\ state.historyIndex = N - 1
                /\ entries = log
            /\ N = maxEntries + 1 =>
                /\ Len(state.history) = maxEntries
                /\ state.historyIndex = maxEntries - 1
                /\ entries = SubSeq(log, 2, N)
                /\ \A i \in 1..Len(entries) : entries[i] # log[1]
                /\ entries[maxEntries] = log[N]

C1_Witness ==
    /\ callLog # Null
    /\ Len(Val(callLog)) = maxEntries + 1
    /\ Len(state.history) = maxEntries

\* C8: in a state an undo() has left (historyIndex below the last entry), a
\* saveToHistory() keeps the entries up to the current index, drops every
\* entry after it and appends one, so that historyIndex = length - 1, and a
\* redo() right after it changes nothing.
C8_SaveDropsRedoTail ==
    state.historyIndex < Len(state.history) - 1 =>
        LET saved == saveToHistory(World)
            n == Len(saved.state.history)
        IN  /\ n = state.historyIndex + 2
            /\ saved.state.historyIndex = n - 1
            /\ SubSeq(saved.state.history, 1, n - 1)
                   = SubSeq(state.history, 1, state.historyIndex + 1)
            /\ saved.state.history[n] = copyLists(state)
            /\ redo(saved) = saved

C8_Witness ==
    /\ state.historyIndex > 0
    /\ state.historyIndex < Len(state.history) - 1
    /\ Len(state.history) = maxEntries


\* the six lists, the selection, history and historyIndex are the same in
\* both worlds
Untouched(a, b) ==
    /\ Lists(a.state) = Lists(b.state)
    /\ a.heap = b.heap
    /\ <<a.state.selectedAnnotation, a.state.selectedType, a.state.selectedIndex,
         a.state.dragMode, a.state.originalBounds>>
       = <<b.state.selectedAnnotation, b.state.selectedType, b.state.selectedIndex,
           b.state.dragMode, b.state.originalBounds>>
    /\ a.state.history = b.state.history
    /\ a.state.historyIndex = b.state.historyIndex

\* C16: undo() with historyIndex <= 0 and redo() with historyIndex =
\* length - 1 change nothing, the empty history included: the six lists, the
\* selection, history and historyIndex stay as they are.
C16_ExhaustedIsNoOp ==
    /\ state.historyIndex <= 0 => Untouched(undo(World), World)
    /\ state.historyIndex = Len(state.history) - 1 => Untouched(redo(World), World)

\* the history holds several entries and undo() has gone back to the oldest
\* or redo() forward to the newest
C16_Witness ==
    /\ Len(state.history) >= 2
    /\ callLog = Null
    /\ state.historyIndex \in {0, Len(state.history) - 1}


\* C26: in every reachable state every stroke of state.strokes has at least
\* one point, and so has the stroke of a pen gesture in progress, which is the
\* stroke that the pointer-up commits.
C26_StrokesHavePoints ==
    /\ \A i \in 1..Len(state.strokes) : Len(state.strokes[i].points) >= 1
    /\ state.currentStroke # Null => Len(Val(state.currentStroke).points) >= 1
    /\ LET after == handleMouseUp(World)
       IN  \A i \in 1..Len(after.state.strokes) :
               Len(after.state.strokes[i].points) >= 1

\* a stroke made by a pointer-down and a pointer-up with no move between them
\* has been committed, undone and redone
C26_Witness ==
    /\ Len(state.strokes) >= 1
    /\ Len(state.strokes[1].points) = 1
    /\ state.historyIndex >= 1
    /\ Len(state.history) >= 3


\* C32: in every reachable state -1 <= historyIndex <= length - 1 and the
\* history holds at most 20 entries; historyIndex is -1 exactly when the
\* history is empty; and right after a saveToHistory() historyIndex is
\* length - 1, within the same limits.
C32_IndexInRange ==
    /\ state.historyIndex >= -1
    /\ state.historyIndex <= Len(state.history) - 1
    /\ Len(state.history) <= maxEntries
    /\ (state.historyIndex = -1) <=> (state.history = <<>>)
    /\ LET saved == saveToHistory(World).state
       IN  /\ saved.historyIndex = Len(saved.history) - 1
           /\ Len(saved.history) <= maxEntries
           /\ saved.historyIndex >= 0

\* the history is full and undo() has gone back to its oldest entry
C32_Witness ==
    /\ Len(state.history) = maxEntries
    /\ state.historyIndex = 0

-----------------------------------------------------------------------------
(* The drawing specification: gestures of the five drawing tools from one    *)
(* pointer-down point, with display frames and the pointer leaving the       *)
(* canvas at any moment, and tool shortcuts between gestures.                *)

DrawStart == <<100, 100>>

DrawMoves == {<<104, 100>>, <<106, 100>>, <<300, 250>>}

DrawKeys == {"p", "a", "r", "c", "b"}

InDraw(w) ==
    /\ NumAnnotations(w.state) <= MaxAnnotations
    /\ \A i \in 1..Len(w.state.strokes) : Len(w.state.strokes[i].points) <= MaxPoints
    /\ w.state.currentStroke # Null => Len(Val(w.state.currentStroke).points) <= MaxPoints

DrawInit == IsWorld(init(NewWorld(FALSE)))

DrawKey ==
    /\ ~state.isDrawing
    /\ \E key \in DrawKeys :
        LET w == keydown(World, key) IN InDraw(w) /\ SetWorld(w)

DrawDown ==
    LET w == handleMouseDown(World, Coords(DrawStart)) IN InDraw(w) /\ SetWorld(w)

DrawMove ==
    \E p \in DrawMoves :
        LET w == handleMouseMove(World, Coords(p)) IN InDraw(w) /\ SetWorld(w)

\* the display frame: the callback requestAnimationFrame was given runs
DrawFrame ==
    /\ frames > 0
    /\ LET w == frameCallback(World) IN InDraw(w) /\ SetWorld(w)

DrawUp ==
    LET w == handleMouseUp(World) IN InDraw(w) /\ SetWorld(w)

DrawLeave ==
    LET w == mouseleave(World) IN InDraw(w) /\ SetWorld(w)

DrawNext == DrawKey \/ DrawDown \/ DrawMove \/ DrawFrame \/ DrawUp \/ DrawLeave

SpecDraw == DrawInit /\ [][DrawNext]_vars

\* the commit thresholds as the specification words them, on tenths of a pixel
OverThreshold(a, h) ==
    CASE a.type = "stroke" -> Len(a.points) >= 1
      [] a.type = "arrow" ->
            (a.endX - a.startX) * (a.endX - a.startX)
            + (a.endY - a.startY) * (a.endY - a.startY) > (5 * Unit) * (5 * Unit)
      [] a.type \in {"rectangle", "blur"} -> Abs(a.width) + Abs(a.height) > 10 * Unit
      [] a.type = "ellipse" -> a.radiusX + a.radiusY > 5 * Unit

\* a gesture of the current drawing tool is in progress
Gesture ==
    /\ state.isDrawing
    /\ state.currentTool \in DRAWING
    /\ state[CurrentOf(state.currentTool)] # Null

\* C5: the geometry a shape gesture is committed with is that of the
\* pointer-down point and the last pointer-move point, whether or not a display
\* frame came between that move and the release: the shape ending at the last
\* move point is appended if it crosses its threshold and nothing is appended
\* if it does not.
C5_LastMoveDecides ==
    (Gesture /\ state.currentTool \in SHAPES /\ pendingCoords # Null) =>
        LET tool == state.currentTool
            last == Val(pendingCoords)
            shape == setEnd(tool, Val(state[CurrentOf(tool)]), last.x, last.y)
            after == handleMouseUp(World)
        IN  after.state[ListOfTool(tool)] =
                IF OverThreshold(shape, heap)
                THEN Append(state[ListOfTool(tool)], shape)
                ELSE state[ListOfTool(tool)]

\* C6: when the pointer leaves the canvas during a gesture of a drawing tool,
\* the gesture is abandoned: the six lists, history and historyIndex stay as
\* they are.
C6_LeaveAbandons ==
    (state.isDrawing /\ state.currentTool \in DRAWING) =>
        LET after == mouseleave(World)
        IN  /\ Lists(after.state) = Lists(state)
            /\ after.state.history = state.history
            /\ after.state.historyIndex = state.historyIndex

\* C7: at the pointer-up of a gesture of the current drawing tool the
\* in-progress annotation is appended to its list and exactly one history
\* entry, a copy of the new lists, is saved if and only if its geometry at that
\* moment crosses its threshold (stroke: a point; arrow: length > 5; rectangle
\* and blur: |width| + |height| > 10; ellipse: radiusX + radiusY > 5);
\* otherwise the six lists, history and historyIndex are unchanged.  In both
\* cases the in-progress pointer of the tool is null afterwards.
C7_CommitIffThreshold ==
    Gesture =>
        LET tool == state.currentTool
            a == Val(state[CurrentOf(tool)])
            after == handleMouseUp(World)
        IN  /\ after.state[CurrentOf(tool)] = Null
            /\ IF OverThreshold(a, heap)
               THEN /\ Lists(after.state) =
                         [Lists(state) EXCEPT ![ListOfTool(tool)] = Append(@, a)]
                    /\ after.state.history =
                         Append(state.history, copyLists(after.state))
                    /\ after.state.historyIndex = state.historyIndex + 1
               ELSE /\ Lists(after.state) = Lists(state)
                    /\ after.state.history = state.history
                    /\ after.state.historyIndex = state.historyIndex

\* an arrow of 6 pixels has been committed, and a gesture below its threshold
\* is in progress
C7_Witness ==
    /\ Len(state.arrows) = 1
    /\ state.arrows[1].endX - state.arrows[1].startX = 6 * Unit
    /\ Len(state.history) = 2
    /\ Gesture
    /\ ~OverThreshold(Val(state[CurrentOf(state.currentTool)]), heap)


\* C19: at most one frame callback is pending at any time, and it is pending
\* exactly while rafId is set; during a shape gesture a pointer-move stores
\* its coordinates in pendingCoords, a further pointer-move before the frame
\* overwrites them without requesting another frame, and the callback gives
\* the in-progress shape the coordinates of the latest pointer-move and
\* leaves rafId and pendingCoords null.
C19_OneFramePending ==
    /\ frames <= 1
    /\ (frames = 1) <=> (rafId # 0)
    /\ (Gesture /\ state.currentTool \in SHAPES) =>
           \A p \in DrawMoves, q \in DrawMoves :
               LET tool == state.currentTool
                   first == handleMouseMove(World, Coords(p))
                   second == handleMouseMove(first, Coords(q))
                   ticked == frameCallback(second)
               IN  /\ first.frames = 1
                   /\ first.rafId # 0
                   /\ first.pendingCoords = Some(Coords(p))
                   /\ second.frames = 1
                   /\ second.rafId = first.rafId
                   /\ second.pendingCoords = Some(Coords(q))
                   /\ ticked.state[CurrentOf(tool)]
                          = Some(setEnd(tool, Val(state[CurrentOf(tool)]),
                                        Coords(q).x, Coords(q).y))
                   /\ ticked.frames = 0
                   /\ ticked.rafId = 0
                   /\ ticked.pendingCoords = Null

\* during a shape gesture a frame is pending with the coordinates of a
\* pointer-move
C19_Witness ==
    /\ Gesture
    /\ state.currentTool \in SHAPES
    /\ frames = 1
    /\ rafId # 0
    /\ pendingCoords = Some(Coords(<<300, 250>>))

-----------------------------------------------------------------------------
(* The selection specification: one annotation is drawn, then the select     *)
(* tool clicks and drags on it, with undo and redo, while the history has    *)
(* at most MaxHistory entries.                                               *)

\* the display frame, if one is pending
Tick(w) == IF w.frames > 0 THEN frameCallback(w) ELSE w

\* the editor after a gesture of a drawing tool from (100,100) to (300,250)
Drawn(tool) ==
    LET picked == toolButtonClick(init(NewWorld(TRUE)), tool)
        down == handleMouseDown(picked, Coords(<<100, 100>>))
        moved == Tick(handleMouseMove(down, Coords(<<300, 250>>)))
    IN  toolButtonClick(handleMouseUp(moved), "select")


\* the editor after a gesture of a drawing tool from (100,100) to (103,120):
\* an annotation 3px wide, over its commit threshold
Thin(tool) ==
    LET picked == toolButtonClick(init(NewWorld(TRUE)), tool)
        down == handleMouseDown(picked, Coords(<<100, 100>>))
        moved == Tick(handleMouseMove(down, Coords(<<103, 120>>)))
    IN  toolButtonClick(handleMouseUp(moved), "select")

\* the editor after the text "ab" is entered at (188,164)
Typed ==
    LET picked == toolButtonClick(init(NewWorld(TRUE)), "text")
        shown == handleMouseDown(picked, Coords(<<188, 164>>))
        entered == inputKeydown(input(shown, <<"a", "b">>), "Enter")
    IN  toolButtonClick(entered, "select")

\* the middle of the annotation, its south-east corner, and a point outside
\* of it
SelPoints == {<<200, 175>>, <<300, 250>>, <<400, 325>>}

\* every live annotation lies within [0, MaxCoord] on both axes
Within(w) ==
    \A l \in LISTS : \A i \in 1..Len(w.state[l]) :
        LET bounds == getBounds(w.state[l][i], w.heap)
        IN  bounds # Null =>
                /\ Val(bounds).x >= 0
                /\ Val(bounds).y >= 0
                /\ Val(bounds).x + Val(bounds).width <= MaxCoord * Unit
                /\ Val(bounds).y + Val(bounds).height <= MaxCoord * Unit

InSel(w) == Len(w.state.history) <= MaxHistory /\ Within(w)

SelInit ==
    \E w \in {Drawn(tool) : tool \in DRAWING} \cup {Thin(tool) : tool \in DRAWING}
             \cup {Typed} :
        IsWorld(Renumber(w))

SelDown ==
    \E p \in SelPoints :
        LET w == handleMouseDown(World, Coords(p)) IN InSel(w) /\ SetWorld(w)

SelMove ==
    \E p \in SelPoints :
        /\ resizeIsExact(World, Coords(p))
        /\ LET w == handleMouseMove(World, Coords(p)) IN InSel(w) /\ SetWorld(w)

SelUp ==
    LET w == handleMouseUp(World) IN InSel(w) /\ SetWorld(w)

SelUndo ==
    LET w == toolButtonClick(World, "undo") IN InSel(w) /\ SetWorld(w)

SelRedo ==
    LET w == toolButtonClick(World, "redo") IN InSel(w) /\ SetWorld(w)

SelNext == SelDown \/ SelMove \/ SelUp \/ SelUndo \/ SelRedo

SpecSelect == SelInit /\ [][SelNext]_vars

\* C2: in every state with historyIndex > 0, also right after a select-tool
\* drag has ended, undo() followed by redo() leaves the six lists equal, by
\* value, to what they were before the undo().
C2_UndoRedoIdentity ==
    state.historyIndex > 0 => Scene(redo(undo(World))) = Scene(World)

\* C3: no operation on the live scene changes a stored entry: while no
\* entry has been dropped or restored, every history entry still has the
\* content its saveToHistory() call gave it, every point of every stroke
\* included (which the entries could not keep if they shared a point object
\* with the live scene).
C3_SnapshotsFrozen ==
    callLog # Null => HistoryValue(World) = Val(callLog)

\* a select-tool drag of the selection has ended with the pointer-up
DragEnded ==
    /\ state.currentTool = "select"
    /\ state.selectedAnnotation # 0
    /\ state.dragMode = "null"
    /\ state.originalBounds # Null

\* C4: after a select-tool pointer-down on an annotation or on one of its
\* handles, the pointer-moves and the pointer-up, one undo() gives the
\* annotation the bounds it had at the pointer-down.
C4_UndoRevertsDrag ==
    DragEnded =>
        LET undone == undo(World)
            list == undone.state[ListOf(state.selectedType)]
        IN  /\ state.selectedIndex <= Len(list)
            /\ getBounds(list[state.selectedIndex], undone.heap) = state.originalBounds

\* a resize drag of the selection is in progress
Resizing ==
    /\ state.currentTool = "select"
    /\ state.selectedAnnotation # 0
    /\ state.dragMode \in {"resize-nw", "resize-ne", "resize-sw", "resize-se"}
    /\ state.originalBounds # Null

\* C10: during a resize drag of a rectangle, blur, ellipse, arrow or stroke,
\* whatever pointer-moves came before, a pointer-move gives the selection the
\* bounds that the total delta of that move alone gives originalBounds for the
\* dragged handle, with the 10x10 minimum.
C10_ResizeFromOriginal ==
    (Resizing /\ state.selectedType \in {"rectangle", "blur", "ellipse", "arrow", "stroke"}) =>
        \A p \in SelPoints :
            resizeIsExact(World, Coords(p)) =>
                ObjectBounds(handleMouseMove(World, Coords(p)),
                             state.selectedType, state.selectedAnnotation)
                = Some(resizeBounds(state.dragMode,
                                    Coords(p).x - state.dragStartX,
                                    Coords(p).y - state.dragStartY,
                                    Val(state.originalBounds)))


\* C12: a pointer-move, with any tool and whether it draws or drags, and the
\* select-tool pointer-up leave history, read by value, and historyIndex as
\* they were.
C12_MovesKeepHistory ==
    /\ \A p \in SelPoints :
           resizeIsExact(World, Coords(p)) =>
               LET moved == handleMouseMove(World, Coords(p))
               IN  /\ HistoryValue(moved) = HistoryValue(World)
                   /\ moved.state.historyIndex = state.historyIndex
    /\ state.currentTool = "select" =>
           LET released == handleMouseUp(World)
           IN  /\ HistoryValue(released) = HistoryValue(World)
               /\ released.state.historyIndex = state.historyIndex


\* the history of w, by value, after one entry holding scene has been pushed
\* behind the entries up to historyIndex
Pushed(w, scene) ==
    LET kept == SubSeq(HistoryValue(w), 1, w.state.historyIndex + 1)
        full == Append(kept, scene)
    IN  IF Len(full) > maxEntries THEN Tail(full) ELSE full

\* the history of w after one entry holding the scene of w has been pushed
PushedOnce(w) == Pushed(w, Scene(w))

\* the selection fields of a state
Selection(s) ==
    <<s.selectedAnnotation, s.selectedType, s.selectedIndex, s.dragMode, s.originalBounds>>

\* C13: a select-tool pointer-down on a corner handle of the selection sets
\* dragMode to that handle's resize mode and originalBounds to the
\* selection's current bounds and pushes exactly one history entry, holding
\* the unchanged scene; otherwise a pointer-down that hits an annotation
\* selects it, sets dragMode to 'move' and pushes exactly one entry;
\* otherwise it clears the selection and leaves the lists, history and
\* historyIndex as they were.
C13_SelectDown ==
    (state.currentTool = "select" /\ ~state.isEditingText) =>
        \A p \in SelPoints :
            LET coords == Coords(p)
                after == handleMouseDown(World, coords)
                bounds == IF state.selectedAnnotation # 0
                          THEN ObjectBounds(World, state.selectedType, state.selectedAnnotation)
                          ELSE Null
                handle == IF bounds # Null
                          THEN getHandleAtPoint(coords.x, coords.y, Val(bounds))
                          ELSE "null"
                hit == findAnnotationAtPoint(World, coords.x, coords.y)
                pushed == /\ HistoryValue(after) = PushedOnce(World)
                          /\ after.state.historyIndex = Len(after.state.history) - 1
                          /\ Scene(after) = Scene(World)
            IN  IF handle # "null"
                THEN /\ after.state.dragMode = handle
                     /\ handle \in {"resize-nw", "resize-ne", "resize-sw", "resize-se"}
                     /\ after.state.originalBounds = bounds
                     /\ after.state.selectedAnnotation = state.selectedAnnotation
                     /\ pushed
                ELSE IF hit # Null
                THEN /\ after.state.selectedAnnotation = Val(hit).annotation
                     /\ after.state.selectedType = Val(hit).type
                     /\ after.state.selectedIndex = Val(hit).index
                     /\ after.state.dragMode = "move"
                     /\ pushed
                ELSE /\ Selection(after.state) = <<0, "null", 0, "null", Null>>
                     /\ Scene(after) = Scene(World)
                     /\ HistoryValue(after) = HistoryValue(World)
                     /\ after.state.historyIndex = state.historyIndex

\* a pointer-down on a handle has just started a resize: the newest entry
\* holds the scene and originalBounds the selection's bounds
C13_Witness ==
    /\ Resizing
    /\ state.originalBounds = ObjectBounds(World, state.selectedType, state.selectedAnnotation)
    /\ state.historyIndex = Len(state.history) - 1
    /\ Len(state.history) >= 3
    /\ HistoryValue(World)[Len(state.history)] = Scene(World)


\* C15: whenever undo() or redo() restores an entry, that is, changes
\* historyIndex, the selection fields selectedAnnotation, selectedType,
\* selectedIndex, dragMode and originalBounds are all null afterwards.
C15_RestoreClearsSelection ==
    /\ LET undone == undo(World)
       IN  undone.state.historyIndex # state.historyIndex =>
               Selection(undone.state) = <<0, "null", 0, "null", Null>>
    /\ LET redone == redo(World)
       IN  redone.state.historyIndex # state.historyIndex =>
               Selection(redone.state) = <<0, "null", 0, "null", Null>>

\* an annotation is selected and being dragged, and undo() has an entry to
\* restore
C15_Witness ==
    /\ state.selectedAnnotation # 0
    /\ state.dragMode # "null"
    /\ state.originalBounds # Null
    /\ undo(World).state.historyIndex = state.historyIndex - 1


\* the deltas of a move, in tenths of a pixel
MoveDeltas == {-4000, -35, 0, 7, 1500}

\* C23: for every annotation of every type and all dx, dy, moveAnnotation by
\* (dx, dy) followed by moveAnnotation by (-dx, -dy) leaves the bounds of the
\* annotation equal to its bounds before the two moves.
C23_MoveThereAndBack ==
    \A type \in TYPES : \A i \in 1..Len(state[ListOf(type)]) :
        \A dx \in MoveDeltas, dy \in MoveDeltas :
            LET list == ListOf(type)
                id == identity[list][i]
                there == moveAnnotation(World, id, type, dx, dy)
                back == moveAnnotation(there, id, type, -dx, -dy)
            IN  getBounds(back.state[list][i], back.heap) = getBounds(state[list][i], heap)

\* an annotation has been moved away from where it was drawn by a drag
C23_Witness ==
    /\ state.dragMode = "move"
    /\ state.selectedAnnotation # 0
    /\ state.originalBounds # Null
    /\ ObjectBounds(World, state.selectedType, state.selectedAnnotation)
           # state.originalBounds


RESIZES == {"resize-nw", "resize-ne", "resize-sw", "resize-se"}

OppositeEdges(mode, b) ==
    [h |-> IF mode \in {"resize-nw", "resize-sw"} THEN b.x + b.width ELSE b.x,
     v |-> IF mode \in {"resize-nw", "resize-ne"} THEN b.y + b.height ELSE b.y]

\* C33: for every rectangle and blur region, every handle and every pointer
\* delta, a resize drag from the original bounds leaves the edges opposite to
\* the dragged handle where they were in the original bounds, also when the
\* minimum-size clamp engages.
C33_OppositeEdgesStay ==
    \A type \in {"rectangle", "blur"} : \A i \in 1..Len(state[ListOf(type)]) :
        \A mode \in RESIZES : \A dx, dy \in MoveDeltas :
            LET list == ListOf(type)
                id == identity[list][i]
                B == Val(getBounds(state[list][i], heap))
                resized == resizeAnnotation(World, id, type, mode, dx, dy, B)
                after == Val(getBounds(resized.state[list][i], resized.heap))
            IN  OppositeEdges(mode, after) = OppositeEdges(mode, B)

-----------------------------------------------------------------------------
(* The text specification: text sessions opened by clicks of the text tool,  *)
(* typing, Enter, Escape, the input losing the focus, the two timers, and    *)
(* tool switches by button and by key.                                       *)

TextPoint == <<100, 100>>

TextValues == {<<>>, <<" ">>, <<"a">>, <<" ", "a", " ">>}

TextTools == {"text", "arrow"}

TextKeys == {"t", "a", "ctrl+z", "ctrl+y"}

InText(w) ==
    /\ NumAnnotations(w.state) <= MaxAnnotations
    /\ w.timers.blur <= MaxTimers
    /\ w.timers.focus <= MaxTimers

TextInit == IsWorld(init(NewWorld(FALSE)))

TextButton ==
    \E tool \in TextTools :
        LET w == toolButtonClick(World, tool) IN InText(w) /\ SetWorld(w)

TextDown ==
    LET w == handleMouseDown(World, Coords(TextPoint)) IN InText(w) /\ SetWorld(w)

TextUp ==
    LET w == handleMouseUp(World) IN InText(w) /\ SetWorld(w)

TextFocus ==
    /\ timers.focus > 0
    /\ LET w == focusTimeout(World) IN InText(w) /\ SetWorld(w)

TextType ==
    /\ state.isEditingText
    /\ textInput.focused
    /\ \E text \in TextValues :
        LET w == input(World, text) IN InText(w) /\ SetWorld(w)

TextInputKey ==
    /\ state.isEditingText
    /\ textInput.focused
    /\ \E key \in {"Enter", "Escape"} \cup TextKeys :
        LET w == inputKeydown(World, key) IN InText(w) /\ SetWorld(w)

TextKey ==
    /\ ~textInput.focused
    /\ \E key \in TextKeys :
        LET w == keydown(World, key) IN InText(w) /\ SetWorld(w)

TextBlur ==
    /\ textInput.focused
    /\ LET w == blur(World) IN InText(w) /\ SetWorld(w)

TextBlurTimeout ==
    /\ timers.blur > 0
    /\ LET w == blurTimeout(World) IN InText(w) /\ SetWorld(w)

TextNext ==
    \/ TextButton \/ TextDown \/ TextUp \/ TextFocus \/ TextType \/ TextInputKey
    \/ TextKey \/ TextBlur \/ TextBlurTimeout

SpecText == TextInit /\ [][TextNext]_vars

\* a text session with a text to confirm is open
Entered == state.isEditingText /\ trim(textInput.value) # <<>>

\* C9: a tool switch while a text session is open confirms the session first:
\* a text with the trimmed value is appended to texts and one history entry is
\* saved, then the tool changes.
C9_SwitchConfirms ==
    Entered =>
        \A tool \in TOOLS :
            LET after == selectTool(World, tool)
            IN  /\ Len(after.state.texts) = Len(state.texts) + 1
                /\ after.state.texts[Len(after.state.texts)].text = trim(textInput.value)
                /\ Len(after.state.history) = Len(state.history) + 1
                /\ after.state.currentTool = tool

\* C9, as the code has it: a click on a tool button while a text session is
\* open cancels the session (the text is dropped, texts, history and
\* historyIndex stay as they are, the session is closed) and then changes the
\* tool; a tool key pressed during the session changes nothing.
C9_SwitchCancels ==
    state.isEditingText =>
        /\ \A tool \in TOOLS :
            LET after == toolButtonClick(World, tool)
            IN  /\ Lists(after.state) = Lists(state)
                /\ after.state.history = state.history
                /\ after.state.historyIndex = state.historyIndex
                /\ ~after.state.isEditingText
                /\ after.state.pendingText = Null
                /\ after.textInput.value = <<>>
                /\ after.state.currentTool = tool
        /\ \A key \in {"s", "p", "t", "r", "c", "a", "b"} :
            keydown(World, key) = World

C9_Witness == Entered /\ textInput.focused /\ state.currentTool = "text"


\* the triggers that confirm a text session: Enter in the input, the blur of
\* the input with its delayed handler, a pointer-down on the canvas
TRIGGERS == {"Enter", "blur", "down"}

Trigger(w, trigger) ==
    IF trigger = "Enter" THEN inputKeydown(w, "Enter")
    ELSE IF trigger = "blur" THEN blurTimeout(blur(w))
    ELSE handleMouseDown(w, Coords(TextPoint))

\* lists, history and historyIndex are the same in both worlds
SameScene(a, b) ==
    /\ Lists(a.state) = Lists(b.state)
    /\ a.state.history = b.state.history
    /\ a.state.historyIndex = b.state.historyIndex

\* C14: each trigger that confirms an open text session with a non-empty
\* trimmed text appends exactly one Text, holding the trimmed text at the
\* pending position, and pushes exactly one history entry, and a further
\* trigger for the same session adds nothing; Escape, or a trigger with an
\* empty or blank text, ends the session with every list, history and
\* historyIndex unchanged.
C14_ConfirmOnce ==
    state.isEditingText =>
        /\ \A trigger \in TRIGGERS :
            LET after == Trigger(World, trigger)
                text == trim(textInput.value)
                n == Len(state.texts)
            IN  /\ ~after.state.isEditingText
                /\ IF text # <<>>
                   THEN /\ state.pendingText # Null
                        /\ Len(after.state.texts) = n + 1
                        /\ SubSeq(after.state.texts, 1, n) = state.texts
                        /\ after.state.texts[n + 1].text = text
                        /\ after.state.texts[n + 1].x = Val(state.pendingText).x
                        /\ after.state.texts[n + 1].y = Val(state.pendingText).y
                        /\ \A l \in LISTS \ {"texts"} : after.state[l] = state[l]
                        /\ HistoryValue(after) = Pushed(World, Scene(after))
                        /\ after.state.historyIndex = Len(after.state.history) - 1
                        /\ \A second \in {"blur", "down"} :
                               SameScene(Trigger(after, second), after)
                   ELSE SameScene(after, World)
        /\ LET escaped == inputKeydown(World, "Escape")
           IN  /\ ~escaped.state.isEditingText
               /\ SameScene(escaped, World)
               /\ \A second \in {"blur", "down"} :
                      SameScene(Trigger(escaped, second), escaped)

\* a session has been confirmed with a text and a delayed blur handler is
\* still to run
C14_Witness ==
    /\ ~state.isEditingText
    /\ Len(state.texts) = 1
    /\ Len(state.history) = 2
    /\ timers.blur > 0


\* C25: while a text session is open, a key-down for undo, redo, save or a
\* tool letter changes neither history, historyIndex, the annotation lists
\* nor currentTool.
C25_ShortcutsSuppressed ==
    state.isEditingText =>
        \A key \in KEYS :
            LET after == keydown(World, key)
            IN  /\ SameScene(after, World)
                /\ after.state.currentTool = state.currentTool

\* a text session is open while there is an entry to undo, so that an undo
\* key that was processed would restore an older scene
C25_Witness ==
    /\ state.isEditingText
    /\ state.historyIndex > 0
    /\ Len(state.texts) > 0


\* C35: the delayed blur handler of an earlier text session never closes a
\* later one: when an open, focused session is confirmed by a pointer-down on
\* the canvas (the input loses the focus), a second pointer-down opens a new
\* session and then the blur timer of the first session fires, the new session
\* is still open and its pendingText is kept.
C35_BlurTimerOwnSession ==
    (/\ state.isEditingText
     /\ textInput.focused
     /\ state.currentTool = "text"
     /\ timers.blur = 0) =>
        LET confirmed == blur(handleMouseDown(World, Coords(TextPoint)))
            opened == handleMouseDown(confirmed, Coords(TextPoint))
            fired == blurTimeout(opened)
        IN  /\ opened.state.isEditingText
            /\ fired.state.isEditingText
            /\ fired.state.pendingText = opened.state.pendingText

-----------------------------------------------------------------------------
(* The switching specification: gestures of the pen, arrow and select tools  *)
(* with tool shortcuts at any moment, also between a pointer-down and its    *)
(* pointer-up.                                                               *)

SwitchStart == <<100, 100>>

SwitchMove == <<106, 100>>

SwitchKeys == {"p", "a", "s"}

InSwitch(w) ==
    /\ NumAnnotations(w.state) <= MaxAnnotations
    /\ Len(w.state.history) <= MaxHistory
    /\ \A i \in 1..Len(w.state.strokes) : Len(w.state.strokes[i].points) <= MaxPoints
    /\ w.state.currentStroke # Null => Len(Val(w.state.currentStroke).points) <= MaxPoints
    /\ Within(w)

SwitchInit == IsWorld(init(NewWorld(FALSE)))

SwitchKey ==
    \E key \in SwitchKeys :
        LET w == keydown(World, key) IN InSwitch(w) /\ SetWorld(w)

SwitchDown ==
    LET w == handleMouseDown(World, Coords(SwitchStart)) IN InSwitch(w) /\ SetWorld(w)

SwitchMoved ==
    /\ resizeIsExact(World, Coords(SwitchMove))
    /\ LET w == handleMouseMove(World, Coords(SwitchMove)) IN InSwitch(w) /\ SetWorld(w)

SwitchFrame ==
    /\ frames > 0
    /\ LET w == frameCallback(World) IN InSwitch(w) /\ SetWorld(w)

SwitchUp ==
    LET w == handleMouseUp(World) IN InSwitch(w) /\ SetWorld(w)

SwitchNext == SwitchKey \/ SwitchDown \/ SwitchMoved \/ SwitchFrame \/ SwitchUp

SpecSwitch == SwitchInit /\ [][SwitchNext]_vars

\* the in-progress pointers of the state object
CURRENT == {"currentStroke", "currentArrow", "currentRectangle", "currentEllipse",
            "currentBlur"}

\* C11: in every reachable state at most one of the in-progress pointers is
\* non-null, also when the tool is switched between a pointer-down and its
\* pointer-up.
C11_OneInProgress ==
    Cardinality({c \in CURRENT : state[c] # Null}) <= 1

\* C20: a pointer-up that ends a gesture started with a drawing tool (isDrawing
\* is true) leaves no frame callback pending: rafId and pendingCoords are null
\* and the browser holds no callback, also after a tool switch within the
\* gesture.
C20_UpLeavesNoFrame ==
    state.isDrawing =>
        LET after == handleMouseUp(World)
        IN  after.rafId = 0 /\ after.pendingCoords = Null /\ after.frames = 0


\* C36: after a pointer-up, whatever the current tool, isDrawing is false and
\* every in-progress pointer is null; hence a pointer-move that follows the
\* pointer-up, also after a tool key, changes nothing and schedules no frame
\* callback.
C36_UpEndsGesture ==
    LET up == handleMouseUp(World)
    IN  /\ ~up.state.isDrawing
        /\ \A c \in CURRENT : up.state[c] = Null
        /\ handleMouseMove(up, Coords(SwitchMove)) = up
        /\ \A key \in SwitchKeys :
               LET switched == keydown(up, key)
               IN  handleMouseMove(switched, Coords(SwitchMove)) = switched


\* C37: a drag mode is set only while an annotation is selected and the tool
\* is select. It is set by nothing but a pointer-down of the select tool that
\* hit a handle of the selection or an annotation, and it is null again after
\* the next pointer-up, after an undo or redo that restores an entry, and
\* after a switch to another tool.
C37_DragNeedsSelection ==
    /\ state.dragMode # "null" =>
           /\ state.selectedAnnotation # 0
           /\ state.currentTool = "select"
           /\ handleMouseUp(World).state.dragMode = "null"
           /\ \A tool \in TOOLS \ {"select"} :
                  selectTool(World, tool).state.dragMode = "null"
           /\ \A key \in {"ctrl+z", "ctrl+y"} :
                  LET restored == keydown(World, key)
                  IN  restored.state.historyIndex # state.historyIndex
                          => restored.state.dragMode = "null"
    /\ state.dragMode = "null" =>
           /\ \A p \in {SwitchStart, SwitchMove} :
                  /\ handleMouseMove(World, Coords(p)).state.dragMode = "null"
                  /\ LET down == handleMouseDown(World, Coords(p))
                         bounds == ObjectBounds(World, state.selectedType,
                                                state.selectedAnnotation)
                     IN  down.state.dragMode # "null" =>
                             /\ state.currentTool = "select"
                             /\ \/ findAnnotationAtPoint(World, Coords(p).x, Coords(p).y) # Null
                                \/ /\ state.selectedAnnotation # 0
                                   /\ bounds # Null
                                   /\ getHandleAtPoint(Coords(p).x, Coords(p).y, Val(bounds))
                                          # "null"
           /\ \A key \in KEYS : keydown(World, key).state.dragMode = "null"
           /\ handleMouseUp(World).state.dragMode = "null"
           /\ frames > 0 => frameCallback(World).state.dragMode = "null"

\* an arrow is being dragged after an earlier entry of the history was saved,
\* so that an undo restores a scene
C37_Witness ==
    /\ state.dragMode = "move"
    /\ state.selectedType = "arrow"
    /\ state.historyIndex > 0


\* C21: while a tool other than select is current, selectedAnnotation,
\* selectedType, selectedIndex and dragMode are all null; a switch from
\* select to another tool, by button or by key, leaves them null.
C21_SelectionOnlyInSelect ==
    /\ state.currentTool # "select" =>
           <<state.selectedAnnotation, state.selectedType, state.selectedIndex,
             state.dragMode>> = <<0, "null", 0, "null">>
    /\ \A tool \in TOOLS \ {"select"} :
           LET after == toolButtonClick(World, tool)
           IN  <<after.state.selectedAnnotation, after.state.selectedType,
                 after.state.selectedIndex, after.state.dragMode>>
               = <<0, "null", 0, "null">>

\* an annotation is selected and dragged with the select tool, so that a tool
\* switch has a selection to clear
C21_Witness ==
    /\ state.currentTool = "select"
    /\ state.selectedAnnotation # 0
    /\ state.dragMode = "move"

-----------------------------------------------------------------------------
(* Hit testing: the editor holds a scene of annotations that may overlap,    *)
(* and the select tool is clicked on it.                                     *)

\* the two spans a gesture is drawn over; the second starts in the middle of
\* the first, on the same line
HitSpans ==
    {[from |-> <<100, 100>>, to |-> <<300, 250>>],
     [from |-> <<200, 175>>, to |-> <<400, 325>>]}

HitTools == {"pen", "arrow", "rectangle", "circle", "blur", "text"}

\* a scene is drawn by up to MaxScene gestures
Scenes ==
    UNION {[1..n -> [tool : HitTools, span : HitSpans]] : n \in 0..MaxScene}

\* one gesture: the tool is picked, then either the pointer goes down at the
\* start of the span, moves to its end, a frame passes and the pointer goes
\* up, or a click at the start opens the text input, "ab" is typed and Enter
\* pressed
Sketch(w, gesture) ==
    LET picked == toolButtonClick(w, gesture.tool)
        down == handleMouseDown(picked, Coords(gesture.span.from))
    IN  IF gesture.tool = "text"
        THEN inputKeydown(input(focusTimeout(down), <<"a", "b">>), "Enter")
        ELSE handleMouseUp(Tick(handleMouseMove(down, Coords(gesture.span.to))))

RECURSIVE Build(_, _)
Build(scene, k) ==
    IF k = 0 THEN init(NewWorld(FALSE))
    ELSE Sketch(Build(scene, k - 1), scene[k])

\* inside both spans; 10px from their line; 6px from it; on the line and in
\* the second span only; near the line and in the first span only; nowhere
HitPoints ==
    {<<200, 175>>, <<250, 200>>, <<250, 205>>, <<360, 295>>, <<150, 140>>, <<50, 50>>}

InHit(w) == Len(w.state.history) <= NumAnnotations(w.state) + 2

HitInit ==
    \E scene \in Scenes :
        IsWorld(Renumber(toolButtonClick(Build(scene, Len(scene)), "select")))

HitDown ==
    \E p \in HitPoints :
        LET w == handleMouseDown(World, Coords(p)) IN InHit(w) /\ SetWorld(w)

HitUp ==
    LET w == handleMouseUp(World) IN InHit(w) /\ SetWorld(w)

HitNext == HitDown \/ HitUp

SpecHit == HitInit /\ [][HitNext]_vars

\* the priority order of the annotation types
ORDER == <<"text", "ellipse", "rectangle", "arrow", "stroke", "blur">>

Rank(type) == CHOOSE k \in 1..Len(ORDER) : ORDER[k] = type

\* annotation number i of a type matches the point: the point is in its
\* bounds, or for an arrow or a stroke near its line
Matches(w, type, i, x, y) ==
    LET a == w.state[ListOf(type)][i]
    IN  CASE type = "arrow" -> NearArrow(a, x, y)
          [] type = "stroke" -> NearStroke(a, w.heap, x, y)
          [] OTHER -> InBoundsOf(a, w.heap, x, y)

Matching(w, x, y) ==
    UNION {{<<type, i>> : i \in {j \in 1..Len(w.state[ListOf(type)]) :
                                    Matches(w, type, j, x, y)}} :
           type \in {ORDER[k] : k \in 1..Len(ORDER)}}

\* C17: findAnnotationAtPoint returns null exactly when no annotation matches
\* the point; otherwise it returns a matching annotation such that every
\* other match is of a type later in the order text, ellipse, rectangle,
\* arrow, stroke, blur, or of the same type with a lower index.
C17_TopmostByPriority ==
    \A p \in HitPoints :
        LET x == Coords(p).x
            y == Coords(p).y
            hit == findAnnotationAtPoint(World, x, y)
            matching == Matching(World, x, y)
        IN  /\ (hit = Null) <=> (matching = {})
            /\ hit # Null =>
                /\ <<Val(hit).type, Val(hit).index>> \in matching
                /\ Val(hit).annotation = identity[ListOf(Val(hit).type)][Val(hit).index]
                /\ \A m \in matching :
                    \/ Rank(m[1]) > Rank(Val(hit).type)
                    \/ m[1] = Val(hit).type /\ m[2] <= Val(hit).index

\* a click has selected an annotation at a point that two annotations match
C17_Witness ==
    /\ state.selectedAnnotation # 0
    /\ state.dragMode = "move"
    /\ Cardinality(Matching(World, state.dragStartX, state.dragStartY)) >= 2

\* the point is strictly inside the bounds
StrictlyInside(x, y, bounds) ==
    /\ x > bounds.x /\ x < bounds.x + bounds.width
    /\ y > bounds.y /\ y < bounds.y + bounds.height

\* the point is in the bounds of an annotation of one of the lists
Covered(w, lists, x, y) ==
    \E l \in lists : \E i \in 1..Len(w.state[l]) : InBoundsOf(w.state[l][i], w.heap, x, y)

\* C18: a point strictly inside the bounds of a rectangle and in the bounds
\* of no text and no ellipse gives that rectangle (the topmost such
\* rectangle if several hold the point), whatever strokes there are; a point
\* less than hitTolerance (10px) from the segment of an arrow and in the
\* bounds of no text, ellipse or rectangle gives that arrow (the topmost
\* such arrow).
C18_RectangleAndArrowHits ==
    \A p \in HitPoints :
        LET x == Coords(p).x
            y == Coords(p).y
            hit == findAnnotationAtPoint(World, x, y)
            inside == {i \in 1..Len(state.rectangles) :
                          StrictlyInside(x, y, Val(getBounds(state.rectangles[i], heap)))}
            near == {i \in 1..Len(state.arrows) :
                        LET a == state.arrows[i]
                        IN  distanceToLineLess(x, y, a.startX, a.startY, a.endX, a.endY,
                                               hitTolerance * Unit)}
        IN  /\ (inside # {} /\ ~Covered(World, {"texts", "ellipses"}, x, y)) =>
                /\ hit # Null
                /\ Val(hit).type = "rectangle"
                /\ \A i \in inside : i <= Val(hit).index
                /\ Val(hit).annotation = identity.rectangles[Val(hit).index]
            /\ (near # {} /\ ~Covered(World, {"texts", "ellipses", "rectangles"}, x, y)) =>
                /\ hit # Null
                /\ Val(hit).type = "arrow"
                /\ Val(hit).index = Last(near)
                /\ Val(hit).annotation = identity.arrows[Val(hit).index]

\* a click strictly inside a rectangle has selected it while the scene also
\* holds a stroke
C18_Witness ==
    /\ state.strokes # <<>>
    /\ state.selectedType = "rectangle"
    /\ state.dragMode = "move"
    /\ StrictlyInside(state.dragStartX, state.dragStartY,
                      Val(getBounds(state.rectangles[state.selectedIndex], heap)))

-----------------------------------------------------------------------------
(* Editing: rectangles are drawn, selected, dragged, undone and redone, and  *)
(* the tool is switched at any moment.                                       *)

EditPoints == {<<100, 100>>, <<300, 250>>}

EditKeys == {"r", "s", "ctrl+z", "ctrl+y"}

EditInit == IsWorld(init(NewWorld(FALSE)))

EditKey ==
    \E key \in EditKeys :
        LET w == keydown(World, key) IN InSwitch(w) /\ SetWorld(w)

EditDown ==
    \E p \in EditPoints :
        LET w == handleMouseDown(World, Coords(p)) IN InSwitch(w) /\ SetWorld(w)

EditMove ==
    \E p \in EditPoints :
        /\ resizeIsExact(World, Coords(p))
        /\ LET w == handleMouseMove(World, Coords(p)) IN InSwitch(w) /\ SetWorld(w)

EditFrame ==
    /\ frames > 0
    /\ LET w == frameCallback(World) IN InSwitch(w) /\ SetWorld(w)

EditUp ==
    LET w == handleMouseUp(World) IN InSwitch(w) /\ SetWorld(w)

EditNext == EditKey \/ EditDown \/ EditMove \/ EditFrame \/ EditUp

SpecEdit == EditInit /\ [][EditNext]_vars

\* bounds moved by (dx, dy)
Shifted(bounds, dx, dy) == [bounds EXCEPT !.x = @ + dx, !.y = @ + dy]

\* C22: whenever selectedAnnotation is non-null, selectedIndex is an index of
\* the live list of selectedType and the element there is the selected
\* object itself, so that a move through the selection moves the annotation
\* the list holds.
C22_SelectionAliasesList ==
    state.selectedAnnotation # 0 =>
        /\ state.selectedType \in TYPES
        /\ state.selectedIndex \in 1..Len(state[ListOf(state.selectedType)])
        /\ identity[ListOf(state.selectedType)][state.selectedIndex]
               = state.selectedAnnotation
        /\ (state.currentTool = "select" /\ state.dragMode = "move") =>
               \A p \in EditPoints :
                   LET list == ListOf(state.selectedType)
                       i == state.selectedIndex
                       moved == handleMouseMove(World, Coords(p))
                   IN  getBounds(moved.state[list][i], moved.heap)
                       = Some(Shifted(Val(getBounds(state[list][i], heap)),
                                      Coords(p).x - state.dragStartX,
                                      Coords(p).y - state.dragStartY))

\* a rectangle has been drawn, the tool switched to select and the rectangle
\* selected for a move
C22_Witness ==
    /\ state.selectedAnnotation # 0
    /\ state.dragMode = "move"
    /\ state.historyIndex >= 2
    /\ Len(state.rectangles) = 1

-----------------------------------------------------------------------------
(* draft.js: restoring a draft; editor.js: init() with a draft, the modals *)

\* annotations.strokes || [], and so on
ListOrEmpty(annotations, list) ==
    IF list \in DOMAIN annotations THEN annotations[list] ELSE <<>>

\* restoreAnnotations() whose ellipses and rectangles are rebuilt by their
\* constructors alone
restoreAnnotations_constructorsOnly(w, annotations) ==
    LET data(list) == ListOrEmpty(annotations, list)
        lists ==
            [strokes |-> [i \in 1..Len(data("strokes")) |->
                [Stroke(data("strokes")[i].color, data("strokes")[i].lineWidth)
                    EXCEPT !.points = data("strokes")[i].points]],
             arrows |-> [i \in 1..Len(data("arrows")) |->
                [Arrow(data("arrows")[i].startX, data("arrows")[i].startY,
                       data("arrows")[i].color, data("arrows")[i].lineWidth)
                    EXCEPT !.endX = data("arrows")[i].endX,
                           !.endY = data("arrows")[i].endY]],
             rectangles |-> [i \in 1..Len(data("rectangles")) |->
                Rectangle(data("rectangles")[i].x, data("rectangles")[i].y,
                          data("rectangles")[i].color, data("rectangles")[i].lineWidth,
                          data("rectangles")[i].filled)],
             ellipses |-> [i \in 1..Len(data("ellipses")) |->
                Ellipse(data("ellipses")[i].startX, data("ellipses")[i].startY,
                        data("ellipses")[i].color, data("ellipses")[i].lineWidth,
                        data("ellipses")[i].filled)],
             blurs |-> [i \in 1..Len(data("blurs")) |->
                [BlurRegion(data("blurs")[i].x, data("blurs")[i].y)
                    EXCEPT !.width = data("blurs")[i].width,
                           !.height = data("blurs")[i].height]],
             texts |-> [i \in 1..Len(data("texts")) |->
                TextAnnotation(data("texts")[i].x, data("texts")[i].y,
                               data("texts")[i].text, data("texts")[i].fontSize,
                               data("texts")[i].color)]]
    IN  [w EXCEPT !.state.strokes = lists.strokes,
                  !.state.arrows = lists.arrows,
                  !.state.rectangles = lists.rectangles,
                  !.state.ellipses = lists.ellipses,
                  !.state.blurs = lists.blurs,
                  !.state.texts = lists.texts,
                  !.identity = [l \in LISTS |->
                      [i \in 1..Len(lists[l]) |->
                          restoredIdentity(lists)[l][i] + w.state.selectedAnnotation]]]

\* restoreAnnotations(): every list is rebuilt from the plain objects, a
\* missing list as the empty list; the new objects have new identities
restoreAnnotations(w, annotations) ==
    LET data(list) == ListOrEmpty(annotations, list)
        lists ==
            [strokes |-> [i \in 1..Len(data("strokes")) |->
                [Stroke(data("strokes")[i].color, data("strokes")[i].lineWidth)
                    EXCEPT !.points = data("strokes")[i].points]],
             arrows |-> [i \in 1..Len(data("arrows")) |->
                [Arrow(data("arrows")[i].startX, data("arrows")[i].startY,
                       data("arrows")[i].color, data("arrows")[i].lineWidth)
                    EXCEPT !.endX = data("arrows")[i].endX,
                           !.endY = data("arrows")[i].endY]],
             rectangles |-> [i \in 1..Len(data("rectangles")) |->
                [Rectangle(data("rectangles")[i].x, data("rectangles")[i].y,
                           data("rectangles")[i].color, data("rectangles")[i].lineWidth,
                           data("rectangles")[i].filled)
                    EXCEPT !.width = data("rectangles")[i].width,
                           !.height = data("rectangles")[i].height]],
             ellipses |-> [i \in 1..Len(data("ellipses")) |->
                [Ellipse(data("ellipses")[i].startX, data("ellipses")[i].startY,
                         data("ellipses")[i].color, data("ellipses")[i].lineWidth,
                         data("ellipses")[i].filled)
                    EXCEPT !.centerX = data("ellipses")[i].centerX,
                           !.centerY = data("ellipses")[i].centerY,
                           !.radiusX = data("ellipses")[i].radiusX,
                           !.radiusY = data("ellipses")[i].radiusY]],
             blurs |-> [i \in 1..Len(data("blurs")) |->
                [BlurRegion(data("blurs")[i].x, data("blurs")[i].y)
                    EXCEPT !.width = data("blurs")[i].width,
                           !.height = data("blurs")[i].height]],
             texts |-> [i \in 1..Len(data("texts")) |->
                TextAnnotation(data("texts")[i].x, data("texts")[i].y,
                               data("texts")[i].text, data("texts")[i].fontSize,
                               data("texts")[i].color)]]
    IN  [w EXCEPT !.state.strokes = lists.strokes,
                  !.state.arrows = lists.arrows,
                  !.state.rectangles = lists.rectangles,
                  !.state.ellipses = lists.ellipses,
                  !.state.blurs = lists.blurs,
                  !.state.texts = lists.texts,
                  !.identity = [l \in LISTS |->
                      [i \in 1..Len(lists[l]) |->
                          restoredIdentity(lists)[l][i] + w.state.selectedAnnotation]]]

\* loadDraft(): the stored draft if it has an image and annotations
loadDraft(w) ==
    IF w.draft.storage # Null /\ Val(w.draft.storage).imageDataUrl # 0
    THEN w.draft.storage ELSE Null

RECURSIVE PointsBefore(_, _)
PointsBefore(strokes, i) ==
    IF i = 1 THEN 0 ELSE PointsBefore(strokes, i - 1) + Len(strokes[i - 1].points)

\* the objects chrome.storage.local.get makes of the stored annotations, in
\* an editor that has no stroke yet: every point is a new object
received(w, annotations) ==
    LET points == AddressesOf(annotations.strokes)
    IN  [world |-> [w EXCEPT !.heap = points],
         annotations |->
            [annotations EXCEPT !.strokes =
                [i \in 1..Len(@) |->
                    [@[i] EXCEPT !.points =
                        [j \in 1..Len(@) |->
                            PointsBefore(annotations.strokes, i) + j]]]]]

\* init() with a draft and no new image
initDraft(w) ==
    LET stored == Val(loadDraft(w))
        got == received(loadImageFromUrl(w, stored.imageDataUrl), stored.annotations)
        restored == restoreAnnotations(got.world, got.annotations)
    IN  setDraftImageUrl(startAutoSave(saveToHistory(restored), stored.imageDataUrl),
                         stored.imageDataUrl)

\* the editor page is opened again with no new screenshot: the modules are
\* loaded anew, the storage is what it was; without a draft init() fails
\* with 'No image data found'
reload(w) ==
    LET fresh == [NewWorld(FALSE) EXCEPT !.draft.storage = w.draft.storage,
                                         !.draft.cleared = w.draft.cleared]
    IN  IF loadDraft(fresh) = Null THEN fresh ELSE initDraft(fresh)

\* the buttons of the storage-error modal and of the large-image warning
storageClearClick(w, removed) ==
    [clearDraft(w, removed) EXCEPT !.draft.storageErrorModal = FALSE]

storageDismissClick(w) == [w EXCEPT !.draft.storageErrorModal = FALSE]

largeImageContinueClick(w) ==
    startAutoSave([w EXCEPT !.draft.largeImageModal = FALSE], w.draft.imageSrc)

-----------------------------------------------------------------------------
(* canvas-renderer.js: the full redraw *)

\* the draw function called once for each element of a list, in index order
\* (Array.prototype.forEach); a call is named by the identity of its argument
DrawEach(w, op, list) ==
    [i \in 1..Len(w.state[list]) |-> [op |-> op, id |-> w.identity[list][i]]]

\* redrawCanvas() with the blurs drawn last, over the vector annotations
redrawCanvas_blursLast(w) ==
    <<[op |-> "clearRect", id |-> 0]>>
    \o (IF w.state.image THEN <<[op |-> "drawImage", id |-> 0]>> ELSE <<>>)
    \o DrawEach(w, "drawStroke", "strokes")
    \o DrawEach(w, "drawArrow", "arrows")
    \o DrawEach(w, "drawRectangle", "rectangles")
    \o DrawEach(w, "drawEllipse", "ellipses")
    \o DrawEach(w, "drawText", "texts")
    \o DrawEach(w, "drawBlur", "blurs")

\* redrawCanvas(): the calls it makes on the context and on the draw
\* functions, in order; it reads the state and writes the canvas only
redrawCanvas(w) ==
    <<[op |-> "clearRect", id |-> 0]>>
    \o (IF w.state.image THEN <<[op |-> "drawImage", id |-> 0]>> ELSE <<>>)
    \o DrawEach(w, "drawBlur", "blurs")
    \o DrawEach(w, "drawStroke", "strokes")
    \o DrawEach(w, "drawArrow", "arrows")
    \o DrawEach(w, "drawRectangle", "rectangles")
    \o DrawEach(w, "drawEllipse", "ellipses")
    \o DrawEach(w, "drawText", "texts")

\* a scene drawn on the editor w by the first k gestures of the scene
RECURSIVE Paint(_, _, _)
Paint(w, scene, k) ==
    IF k = 0 THEN w ELSE Sketch(Paint(w, scene, k - 1), scene[k])

\* the editor whose image has loaded, and the editor whose image has not:
\* the canvas listeners are set up before the image is looked for
RenderInit ==
    \E scene \in Scenes, base \in {init(NewWorld(FALSE)), NewWorld(FALSE)} :
        IsWorld(Renumber(Paint(base, scene, Len(scene))))

RenderUndo ==
    LET w == keydown(World, "ctrl+z") IN w # World /\ SetWorld(w)

RenderRedo ==
    LET w == keydown(World, "ctrl+y") IN w # World /\ SetWorld(w)

RenderNext == RenderUndo \/ RenderRedo

SpecRender == RenderInit /\ [][RenderNext]_vars

\* the layers of a full redraw, bottom first
LAYERS == <<"clearRect", "drawImage", "drawBlur", "drawStroke", "drawArrow",
            "drawRectangle", "drawEllipse", "drawText">>

Layer(op) == CHOOSE k \in 1..Len(LAYERS) : LAYERS[k] = op

DrawOp(list) ==
    CASE list = "blurs" -> "drawBlur"
      [] list = "strokes" -> "drawStroke"
      [] list = "arrows" -> "drawArrow"
      [] list = "rectangles" -> "drawRectangle"
      [] list = "ellipses" -> "drawEllipse"
      [] list = "texts" -> "drawText"

\* the arguments of the calls of one draw function, in the order of the calls
Drawn_by(calls, op) ==
    LET Is(call) == call.op = op
        picked == SelectSeq(calls, Is)
    IN  [i \in 1..Len(picked) |-> picked[i].id]

\* C27: every redrawCanvas() starts with the clear, draws the base image
\* exactly when there is one, never draws a lower layer after a higher one in
\* the order clear, image, blurs, strokes, arrows, rectangles, ellipses,
\* texts, and draws every element of every list once, in index order; so
\* every blur is applied on every call, before any vector annotation.
C27_RedrawOrder ==
    LET calls == redrawCanvas(World)
    IN  /\ calls[1].op = "clearRect"
        /\ Len(Drawn_by(calls, "clearRect")) = 1
        /\ Len(Drawn_by(calls, "drawImage")) = IF state.image THEN 1 ELSE 0
        /\ \A j, k \in 1..Len(calls) :
               j < k => Layer(calls[j].op) <= Layer(calls[k].op)
        /\ \A list \in LISTS : Drawn_by(calls, DrawOp(list)) = identity[list]
        /\ \A list \in LISTS : Len(identity[list]) = Len(state[list])
        /\ \A j, k \in 1..Len(calls) :
               (calls[k].op = "drawBlur" /\ calls[j].op \notin {"clearRect", "drawImage",
                                                                 "drawBlur"})
                   => k < j

\* the scene holds a stroke and a blur region that was drawn after it
C27_Witness ==
    /\ Len(state.strokes) = 1
    /\ Len(state.blurs) = 1
    /\ identity.strokes[1] < identity.blurs[1]
    /\ state.image

-----------------------------------------------------------------------------
(* The draft specification *)

\* the scenes the draft specification starts from: up to MaxAnnotations + 1
\* gestures of one tool, over two spans in turn
DraftSpan(i) ==
    IF i % 2 = 1 THEN [from |-> <<100, 100>>, to |-> <<300, 250>>]
    ELSE [from |-> <<200, 175>>, to |-> <<400, 325>>]

DraftScenes ==
    {[i \in 1..n |-> [tool |-> tool, span |-> DraftSpan(i)]] :
        tool \in HitTools, n \in 0..(MaxAnnotations + 1)}

DraftInit ==
    \E scene \in DraftScenes, url \in {SmallImage, LargeImage} :
        IsWorld(Renumber(toolButtonClick(
            Paint(initImage(NewWorld(FALSE), url), scene, Len(scene)), "pen")))

DraftKey ==
    \E key \in {"ctrl+z", "ctrl+y"} :
        LET w == keydown(World, key) IN w # World /\ SetWorld(w)

DraftDebounce ==
    /\ draft.debounceTimer \in draft.timeouts
    /\ \E outcome \in OUTCOMES : SetWorld(debounceTimeout(World, outcome))

DraftInterval ==
    /\ draft.autoSaveIntervalId
    /\ \E outcome \in OUTCOMES : SetWorld(autoSaveInterval(World, outcome))

DraftClear ==
    /\ draft.storageErrorModal
    /\ \E removed \in BOOLEAN : SetWorld(storageClearClick(World, removed))

DraftDismiss ==
    /\ draft.storageErrorModal
    /\ SetWorld(storageDismissClick(World))

DraftContinue ==
    /\ draft.largeImageModal
    /\ SetWorld(largeImageContinueClick(World))

DraftReload ==
    LET w == reload(World) IN w # World /\ SetWorld(w)

DraftNext ==
    \/ DraftKey \/ DraftDebounce \/ DraftInterval
    \/ DraftClear \/ DraftDismiss \/ DraftContinue \/ DraftReload

SpecDraft == DraftInit /\ [][DraftNext]_vars

\* C28: restoreAnnotations(serializeAnnotations()) leaves six lists equal to
\* the lists before (same length, order, field values and stroke points);
\* restoreAnnotations of data that lacks some of the six lists makes exactly
\* those lists empty; and the scene restored from the stored draft when the
\* editor is opened again is the scene that was stored.
C28_RestoreRoundTrip ==
    LET data == serializeAnnotations(World)
        after == restoreAnnotations(World, data)
    IN  /\ Lists(after.state) = Lists(state)
        /\ Scene(after) = Scene(World)
        /\ \A missing \in SUBSET LISTS :
               LET partial == restoreAnnotations(World, [l \in LISTS \ missing |-> data[l]])
               IN  \A l \in LISTS :
                       partial.state[l] = IF l \in missing THEN <<>> ELSE state[l]
        /\ loadDraft(World) # Null =>
               Scene(reload(World)) = Val(draft.storage).annotations

\* the editor has been opened again on a stored draft that holds an ellipse
C28_Witness ==
    /\ Len(state.ellipses) = 1
    /\ Len(state.history) = 1
    /\ draft.storage # Null
    /\ Scene(World) = Val(draft.storage).annotations

\* C29: a saveDraft() that fails (no image URL, an image over the size
\* limit, or a storage error) resolves to a result with success = false,
\* stores nothing, and leaves the six lists, history and historyIndex as they
\* were; it succeeds in no other case than a present URL within the limit and
\* a storage that accepts the draft.
C29_FailedSaveKeepsScene ==
    \A url \in {0, SmallImage, LargeImage}, outcome \in OUTCOMES :
        LET result == saveDraftResult(World, url, outcome)
            after == saveDraft(World, url, outcome)
            fails == url = 0 \/ url > MAX_STORAGE_SIZE \/ outcome # "ok"
        IN  /\ result.success = ~fails
            /\ SameScene(after, World)
            /\ after.heap = heap
            /\ fails => after.draft.storage = draft.storage

\* a save of a scene with an annotation has failed on the storage quota, and
\* the draft stored before is still the stored one
C29_Witness ==
    /\ draft.lastSaveError = "quota"
    /\ draft.storageErrorModal
    /\ NumAnnotations(state) >= 1
    /\ draft.storage # Null
    /\ Val(draft.storage).annotations # Scene(World)

\* C30: once clearDraft() has run, no draft is stored again before
\* startAutoSave() is called anew.
C30_NoSaveAfterClear == draft.cleared # "written"

-----------------------------------------------------------------------------
(* Undo after select-tool gestures *)

\* the rectangle drawn after a drag
NewShape == [tool |-> "rectangle", span |-> [from |-> <<100, 100>>, to |-> <<300, 250>>]]

\* C31: one undo() reverts the most recent scene-changing gesture and nothing
\* else: after a select-tool drag has ended and a new rectangle has been
\* committed, undo() gives back the scene as the drag left it; and after a
\* select-tool pointer-down and pointer-up with no move between them, an
\* undo() that steps back in the history changes the scene.
C31_UndoOneGesture ==
    /\ DragEnded => Scene(undo(Sketch(World, NewShape))) = Scene(World)
    /\ (state.currentTool = "select" /\ state.dragMode = "null") =>
           \A p \in SelPoints :
               LET clicked == handleMouseUp(handleMouseDown(World, Coords(p)))
                   undone == undo(clicked)
               IN  undone.state.historyIndex # clicked.state.historyIndex
                       => Scene(undone) # Scene(clicked)

-----------------------------------------------------------------------------
(* Every committed annotation can be selected *)

\* the points probed for an annotation: the points of a stroke, the ends of
\* an arrow, the corners and the centre of its bounds, and every point of a
\* 50px grid over the canvas
Probes(a, h) ==
    LET bounds == getBounds(a, h)
        b == Val(bounds)
    IN  (IF a.type = "stroke"
         THEN {<<h[a.points[j]].x, h[a.points[j]].y>> : j \in 1..Len(a.points)} ELSE {})
        \cup (IF a.type = "arrow"
              THEN {<<a.startX, a.startY>>, <<a.endX, a.endY>>} ELSE {})
        \cup (IF bounds = Null THEN {}
              ELSE {<<b.x, b.y>>, <<b.x + b.width, b.y + b.height>>,
                    <<b.x + b.width \div 2, b.y + b.height \div 2>>})
        \cup {<<50 * i * Unit, 50 * j * Unit>> : i, j \in 0..(MaxCoord \div 50)}

\* C34: in every scene that contains exactly one annotation there is a point
\* at which findAnnotationAtPoint returns that annotation, also when it is a
\* stroke of a single point.
C34_EverySelectable ==
    \A l \in LISTS : \A i \in 1..Len(state[l]) :
        NumAnnotations(state) = 1 =>
            \E p \in Probes(state[l][i], heap) :
                LET hit == findAnnotationAtPoint(World, p[1], p[2])
                IN  hit # Null /\ Val(hit).annotation = identity[l][i]

-----------------------------------------------------------------------------
(* The saving specification: undo and redo schedule debounced draft saves,   *)
(* the debounce timers fire, the writes to the storage settle later, the     *)
(* auto-save interval fires, and the modals are answered.                    *)

SaveScenes ==
    {[i \in 1..n |-> [tool |-> "rectangle", span |-> DraftSpan(i)]] :
        n \in 0..(MaxAnnotations + 1)}

InSave(w) == Cardinality(w.draft.timeouts) + Cardinality(w.draft.saving) <= MaxTimers

SaveInit ==
    \E scene \in SaveScenes, url \in {SmallImage, LargeImage} :
        IsWorld(Renumber(toolButtonClick(
            Paint(initImage(NewWorld(FALSE), url), scene, Len(scene)), "pen")))

SaveKey ==
    \E key \in {"ctrl+z", "ctrl+y"} :
        LET w == keydown(World, key) IN w # World /\ InSave(w) /\ SetWorld(w)

SaveFired ==
    \E id \in draft.timeouts : SetWorld(debounceFired(World, id))

SaveSettled ==
    \E job \in draft.saving, outcome \in OUTCOMES :
        SetWorld(debounceSettled(World, job, outcome))

SaveInterval ==
    /\ draft.autoSaveIntervalId
    /\ \E outcome \in OUTCOMES : SetWorld(autoSaveInterval(World, outcome))

SaveClear ==
    /\ draft.storageErrorModal
    /\ \E removed \in BOOLEAN : SetWorld(storageClearClick(World, removed))

SaveDismiss ==
    /\ draft.storageErrorModal
    /\ SetWorld(storageDismissClick(World))

SaveContinue ==
    /\ draft.largeImageModal
    /\ SetWorld(largeImageContinueClick(World))

SaveNext ==
    \/ SaveKey \/ SaveFired \/ SaveSettled \/ SaveInterval
    \/ SaveClear \/ SaveDismiss \/ SaveContinue

SpecSave == SaveInit /\ [][SaveNext]_vars

\* C38: at most one debounced draft save is outstanding, and stopAutoSave()
\* and clearDraft() cancel every outstanding one: after either no debounce
\* timer is left to fire, whatever was scheduled while a save was running.
C38_OneDebounceCancelled ==
    /\ Cardinality(draft.timeouts) <= 1
    /\ stopAutoSave(World).draft.timeouts = {}
    /\ \A removed \in BOOLEAN : clearDraft(World, removed).draft.timeouts = {}

\* the save attempts that can complete next: the interval fires while there
\* is an image to save, a debounce timer fires and saveDraft() returns at
\* once, or a waiting write settles
Attempts ==
    {autoSaveInterval(World, outcome) :
        outcome \in {o \in OUTCOMES : draft.currentImageDataUrl # 0}}
    \cup {debounceFired(World, id) :
            id \in {t \in draft.timeouts : ~saveDraftWrites(draft.currentImageDataUrl)}}
    \cup {debounceSettled(World, job, outcome) :
            job \in draft.saving, outcome \in OUTCOMES}

\* C39: for a failed draft save attempt, started by the debounce timer or by
\* the interval, the storage-error callback is called at most once, and it
\* is called only when the failure is one of quota or size.
C39_NotifiedOnce ==
    \A after \in Attempts :
        /\ after.draft.notified <= 1
        /\ after.draft.notified > 0 => after.draft.lastSaveError \in {"quota", "size"}

-----------------------------------------------------------------------------
(* The capture specification: a capture is started from the popup, each      *)
(* attempt settles in one of the ways of SETTLINGS, and the delay between    *)
(* two attempts passes. The race of an attempt settles after 10 s at the     *)
(* latest and delay(500) resolves, hence the weak fairness of both.          *)

CaptureInit == Constructed(FALSE)

Running == capture.pc \in {"request", "delay"}

Finished == capture.pc \in {"returned", "thrown"}

CaptureClick ==
    /\ ~Running
    /\ \E maxRetries \in 0..MaxRetries : SetWorld(captureWithRetry(World, maxRetries))

CaptureSettle ==
    /\ capture.pc = "request"
    /\ \E settling \in SETTLINGS : SetWorld(captureSettled(World, settling))

CaptureDelay ==
    /\ capture.pc = "delay"
    /\ SetWorld(captureDelayed(World))

CaptureNext == CaptureClick \/ CaptureSettle \/ CaptureDelay

SpecCapture ==
    /\ CaptureInit
    /\ [][CaptureNext]_vars
    /\ WF_vars(CaptureSettle)
    /\ WF_vars(CaptureDelay)

\* the settlings after which the claim has the capture tried again: a
\* rejection, or an error response of a type other than the three
Retryable(settling) ==
    \/ settling \in REJECTIONS
    \/ settling \notin {"success", "empty"} \cup NON_RETRYABLE

\* the last error response among the settlings, null if there is none
LastError(settlings) ==
    LET errors == {k \in 1..Len(settlings) : Response(settlings[k]).error
                                             /\ settlings[k] \notin REJECTIONS}
    IN  IF errors = {} THEN Null
        ELSE Some(Response(settlings[CHOOSE k \in errors : \A j \in errors : j <= k]))

CaptureSafe ==
    LET c == capture
        n == Len(c.settlings)
    IN  /\ c.requests <= c.maxRetries + 1
        /\ c.requests = n + (IF c.pc = "request" THEN 1 ELSE 0)
        /\ \A k \in 1..(n - 1) : Retryable(c.settlings[k])
        /\ (c.pc = "delay") => Retryable(c.settlings[n])
        /\ (Finished /\ n > 0) =>
               LET last == c.settlings[n]
               IN  /\ (last = "success" \/ last \in NON_RETRYABLE) =>
                          /\ c.pc = "returned"
                          /\ c.returned = Some(Response(last))
                   /\ Retryable(last) =>
                          /\ c.requests = c.maxRetries + 1
                          /\ IF LastError(c.settlings) # Null
                             THEN c.pc = "returned" /\ c.returned = LastError(c.settlings)
                             ELSE c.pc = "thrown"

\* C40: captureWithRetry(mode, maxRetries) sends at most maxRetries + 1
\* requests and always terminates. It returns the first successful response
\* at once; it returns an error response of type PROTECTED_PAGE,
\* PERMISSION_DENIED or SCRIPT_INJECTION_FAILED without a further request, so
\* after exactly one request when it is the first response; after a
\* retryable error or a timeout it tries again, and after the last attempt it
\* returns the last error response received, or throws if there was none.
C40_CaptureRetries == [](CaptureSafe) /\ (Running ~> Finished)

\* a capture with two retries returned the error response of its second
\* attempt after the third attempt timed out
C40_Witness ==
    /\ capture.pc = "returned"
    /\ capture.maxRetries = MaxRetries
    /\ capture.settlings = <<"timeout", "CAPTURE_FAILED", "timeout">>
    /\ capture.returned = Some(Response("CAPTURE_FAILED"))

====
